---------------------------- MODULE Spec2Model ----------------------------
(***************************************************************************)
(* Model of cucim.skimage.registration._phase_cross_correlation:           *)
(* phase_cross_correlation, _upsampled_dft, _compute_error and             *)
(* _compute_phasediff.                                                     *)
(*                                                                         *)
(* Numbers.  Every axis length n and upsample factor u used below has      *)
(* n * u dividing 8, so every DFT twiddle factor is a power of             *)
(* zeta = exp(2*pi*i/8) and all array values lie in Q(zeta).  A scalar is  *)
(* a record [k, v, d]: k is "fin" or "nan" (an IEEE not-a-number), and a   *)
(* finite scalar has the value                                             *)
(*      (v[1] + v[2]*zeta + v[3]*zeta^2 + v[4]*zeta^3) / d,   d > 0.       *)
(* Arithmetic is exact (rounding is not modelled); NaN propagates through  *)
(* every operation as in IEEE arithmetic.  A real scalar of the real       *)
(* subfield Q(sqrt 2) is a record [k, p, q, d] with value                  *)
(* (p + q*sqrt 2) / d, and k is "fin", "nan" or "inf".                     *)
(***************************************************************************)
EXTENDS Integers, Sequences, FiniteSets, TLC

----------------------------------------------------------------------------
(* Scalars of Q(zeta) *)

Z8Add(x, y) == [i \in 1..4 |-> x[i] + y[i]]

Z8Scale(c, x) == [i \in 1..4 |-> c * x[i]]

\* zeta^4 = -1
Z8Mul(x, y) ==
    << x[1]*y[1] - x[2]*y[4] - x[3]*y[3] - x[4]*y[2],
       x[1]*y[2] + x[2]*y[1] - x[3]*y[4] - x[4]*y[3],
       x[1]*y[3] + x[2]*y[2] + x[3]*y[1] - x[4]*y[4],
       x[1]*y[4] + x[2]*y[3] + x[3]*y[2] + x[4]*y[1] >>

\* conj(zeta) = -zeta^3, conj(zeta^2) = -zeta^2, conj(zeta^3) = -zeta
Z8Conj(x) == << x[1], -x[4], -x[3], -x[2] >>

\* zeta^k for any integer k
Z8Root(k) ==
    LET r == k % 8
        s == IF r >= 4 THEN -1 ELSE 1
        e == r % 4
    IN  [i \in 1..4 |-> IF i = e + 1 THEN s ELSE 0]

NaN == [k |-> "nan", v |-> <<0, 0, 0, 0>>, d |-> 1]

Cx(v) == [k |-> "fin", v |-> v, d |-> 1]

CInt(n) == Cx(<<n, 0, 0, 0>>)

CZero == CInt(0)

IsNaN(x) == x.k = "nan"

CAdd(x, y) ==
    IF IsNaN(x) \/ IsNaN(y) THEN NaN
    ELSE IF x.d = y.d THEN [k |-> "fin", v |-> Z8Add(x.v, y.v), d |-> x.d]
    ELSE [k |-> "fin", v |-> Z8Add(Z8Scale(y.d, x.v), Z8Scale(x.d, y.v)),
          d |-> x.d * y.d]

CMul(x, y) ==
    IF IsNaN(x) \/ IsNaN(y) THEN NaN
    ELSE [k |-> "fin", v |-> Z8Mul(x.v, y.v), d |-> x.d * y.d]

CConj(x) == IF IsNaN(x) THEN NaN ELSE [x EXCEPT !.v = Z8Conj(x.v)]

CDivInt(x, n) == IF IsNaN(x) THEN NaN ELSE [x EXCEPT !.d = x.d * n]

\* the real part (z + conj z) / 2, as a scalar of Q(zeta)
CRealPart(x) ==
    IF IsNaN(x) THEN NaN
    ELSE [k |-> "fin", v |-> Z8Add(x.v, Z8Conj(x.v)), d |-> 2 * x.d]

\* equality of values (representations need not be reduced)
CEq(x, y) ==
    IF IsNaN(x) \/ IsNaN(y) THEN IsNaN(x) /\ IsNaN(y)
    ELSE Z8Scale(y.d, x.v) = Z8Scale(x.d, y.v)

----------------------------------------------------------------------------
(* Real scalars of Q(sqrt 2) *)

RNaN == [k |-> "nan", p |-> 0, q |-> 0, d |-> 1]

RInf == [k |-> "inf", p |-> 0, q |-> 0, d |-> 1]

Real(p, q, d) == [k |-> "fin", p |-> p, q |-> q, d |-> d]

RInt(n) == Real(n, 0, 1)

\* sign of p + q*sqrt 2: -1, 0 or 1
Sign2(p, q) ==
    IF p = 0 /\ q = 0 THEN 0
    ELSE IF p >= 0 /\ q >= 0 THEN 1
    ELSE IF p <= 0 /\ q <= 0 THEN -1
    ELSE IF p > 0 THEN (IF p * p > 2 * q * q THEN 1 ELSE -1)
    ELSE (IF 2 * q * q > p * p THEN 1 ELSE -1)

RSign(x) == Sign2(x.p, x.q)

RAdd(x, y) ==
    IF x.k = "nan" \/ y.k = "nan" THEN RNaN
    ELSE IF x.k = "inf" \/ y.k = "inf" THEN RInf
    ELSE Real(x.p * y.d + y.p * x.d, x.q * y.d + y.q * x.d, x.d * y.d)

RNeg(x) == IF x.k = "fin" THEN Real(-x.p, -x.q, x.d) ELSE x

RMul(x, y) ==
    IF x.k = "nan" \/ y.k = "nan" THEN RNaN
    ELSE IF x.k = "inf" \/ y.k = "inf" THEN RInf
    ELSE Real(x.p * y.p + 2 * x.q * y.q, x.p * y.q + x.q * y.p, x.d * y.d)

RDivInt(x, n) == IF x.k = "fin" THEN Real(x.p, x.q, x.d * n) ELSE x

\* IEEE division: 0/0 is NaN, x/0 is infinite
RDiv(x, y) ==
    IF x.k = "nan" \/ y.k = "nan" THEN RNaN
    ELSE IF x.k = "inf" \/ y.k = "inf" THEN RNaN
    ELSE IF RSign(y) = 0 THEN (IF RSign(x) = 0 THEN RNaN ELSE RInf)
    ELSE LET n  == y.p * y.p - 2 * y.q * y.q   \* norm of y's numerator
             s  == IF n < 0 THEN -1 ELSE 1
             np == s * (x.p * y.p - 2 * x.q * y.q) * y.d
             nq == s * (x.q * y.p - x.p * y.q) * y.d
         IN  Real(np, nq, s * n * x.d)

RAbs(x) == IF x.k = "fin" /\ RSign(x) < 0 THEN RNeg(x) ELSE x

\* x < y on finite reals
RLess(x, y) ==
    IF x.d = y.d THEN Sign2(y.p - x.p, y.q - x.q) > 0
    ELSE Sign2(y.p * x.d - x.p * y.d, y.q * x.d - x.q * y.d) > 0

RECURSIVE Gcd(_, _)
Gcd(a, b) == IF b = 0 THEN a ELSE Gcd(b, a % b)

\* a finite real in lowest terms (the denominator is positive)
Reduced(x) ==
    LET g == Gcd(Gcd(IF x.p < 0 THEN -x.p ELSE x.p,
                     IF x.q < 0 THEN -x.q ELSE x.q), x.d)
    IN  Real(x.p \div g, x.q \div g, x.d \div g)

REq(x, y) ==
    IF x.k # "fin" \/ y.k # "fin" THEN x.k = y.k
    ELSE IF x.d = y.d THEN x.p = y.p /\ x.q = y.q
    ELSE Reduced(x) = Reduced(y)

\* |z|^2 = z * conj z = p + q*(zeta - zeta^3) = p + q*sqrt 2
Norm2(z) ==
    IF IsNaN(z) THEN RNaN
    ELSE LET w == Z8Mul(z.v, Z8Conj(z.v))
         IN  Real(w[1], w[2], z.d * z.d)

\* Re z = (2*v1 + (v2 - v4)*sqrt 2) / (2*d),  Im z = (2*v3 + (v2 + v4)*sqrt 2) / (2*d)
RePart(z) ==
    IF IsNaN(z) THEN RNaN ELSE Real(2 * z.v[1], z.v[2] - z.v[4], 2 * z.d)

ImPart(z) ==
    IF IsNaN(z) THEN RNaN ELSE Real(2 * z.v[3], z.v[2] + z.v[4], 2 * z.d)

----------------------------------------------------------------------------
(* N-dimensional arrays: [shape, dtype, data], data flat in row-major      *)
(* (C) order, dtype "float" or "complex".  Indices are 0-based as in the   *)
(* source; data is a 1-based TLA+ sequence.                                *)

\* F applied to the one element of S, evaluated once
Bind(S, F(_)) == CHOOSE y \in { F(x) : x \in S } : TRUE

RECURSIVE Prod(_)
Prod(s) == IF s = <<>> THEN 1 ELSE Head(s) * Prod(Tail(s))

Size(a) == Prod(a.shape)

Ndim(a) == Len(a.shape)

\* the unset value of an array variable, and the absent mask argument
None == [shape |-> <<>>, dtype |-> "none", data |-> <<>>]

\* the value of a sequence, evaluated once
Eval(seq) == seq \o <<>>

Array(shape, dtype, data) ==
    [shape |-> shape, dtype |-> dtype, data |-> Eval(data)]

\* stride of axis j in a row-major array of this shape
RECURSIVE Stride(_, _)
Stride(shape, j) ==
    IF j = Len(shape) THEN 1 ELSE shape[j + 1] * Stride(shape, j + 1)

\* multi-index (0-based, one entry per axis) of the flat 0-based index k
unravel_index(k, shape) ==
    [j \in 1..Len(shape) |-> (k \div Stride(shape, j)) % shape[j]]

\* s[i] + (s[i+1] + (... + (s[Len(s)] + 0)))
RECURSIVE CSumFrom(_, _)
CSumFrom(s, i) ==
    IF i > Len(s) THEN CZero
    ELSE Bind({CSumFrom(s, i + 1)}, LAMBDA rest : CAdd(s[i], rest))

CSum(s) == Bind({s}, LAMBDA t : CSumFrom(t, 1))

RECURSIVE RSumFrom(_, _)
RSumFrom(s, i) ==
    IF i > Len(s) THEN RInt(0)
    ELSE Bind({RSumFrom(s, i + 1)}, LAMBDA rest : RAdd(s[i], rest))

RSum(s) == Bind({s}, LAMBDA t : RSumFrom(t, 1))

RECURSIVE ISum(_)
ISum(s) == IF s = <<>> THEN 0 ELSE Head(s) + ISum(Tail(s))

\* eighths of a turn of sum_j k_j * n_j / N_j
Phase8(kidx, nidx, shape) ==
    ISum([j \in 1..Len(shape) |-> kidx[j] * nidx[j] * (8 \div shape[j])])

\* fft.fftn: the forward N-dimensional DFT over all axes; complex result
fftn(a) ==
    LET N == Size(a)
        X(k) == CSum([n \in 1..N |->
                   CMul(a.data[n],
                        Cx(Z8Root(-Phase8(unravel_index(k - 1, a.shape),
                                          unravel_index(n - 1, a.shape),
                                          a.shape))))])
    IN  Array(a.shape, "complex", [k \in 1..N |-> X(k)])

\* fft.ifftn: the inverse N-dimensional DFT, normalised by 1/N
ifftn(a) ==
    LET N == Size(a)
        x(n) == CDivInt(CSum([k \in 1..N |->
                   CMul(a.data[k],
                        Cx(Z8Root(Phase8(unravel_index(k - 1, a.shape),
                                         unravel_index(n - 1, a.shape),
                                         a.shape))))]), N)
    IN  Array(a.shape, "complex", [n \in 1..N |-> x(n)])

\* elementwise a * conj(b); the result is complex when either operand is
ConjProduct(a, b) ==
    Array(a.shape,
          IF a.dtype = "complex" \/ b.dtype = "complex" THEN "complex" ELSE "float",
          [n \in 1..Size(a) |-> CMul(a.data[n], CConj(b.data[n]))])

ArrayConj(a) ==
    Array(a.shape, a.dtype, [n \in 1..Size(a) |-> CConj(a.data[n])])

\* cp.abs then squaring: |x|^2 per element, NaN for a NaN element
AbsSquared(a) == Eval([n \in 1..Size(a) |-> Norm2(a.data[n])])

\* variant: the last flat index of maximum magnitude
argmax_abs_last(a) ==
    Bind({AbsSquared(a)}, LAMBDA m :
        LET N  == Len(m)
            Best(i) == \/ m[i].k = "nan"
                       \/ \A j \in 1..N : m[j].k # "nan" /\ ~RLess(m[i], m[j])
        IN  (CHOOSE i \in 1..N : Best(i) /\ \A j \in (i + 1)..N : ~Best(j)) - 1)

\* cp.argmax(cp.abs(a)): the first flat index (0-based) of maximum magnitude;
\* a NaN counts as maximal, as in numpy.argmax
argmax_abs(a) ==
    Bind({AbsSquared(a)}, LAMBDA m :
        LET N  == Len(m)
            Best(i) == \/ m[i].k = "nan"
                       \/ \A j \in 1..N : m[j].k # "nan" /\ ~RLess(m[i], m[j])
        IN  (CHOOSE i \in 1..N : Best(i) /\ \A j \in 1..(i - 1) : ~Best(j)) - 1)

----------------------------------------------------------------------------
(* _upsampled_dft *)

\* fft.fftfreq(n, d)[c] = FftFreqNum(n, c) / (n * d)
FftFreqNum(n, c) == IF c < (n - 1) \div 2 + 1 THEN c ELSE c - n

\* kernel[r, c] = exp(-2*pi*i * (r - ax_offset) * fftfreq(n_items, upsample_factor)[c]),
\* then kernel.astype(data.dtype): a float dtype keeps the real part only
Kernel(r, c, n_items, ax_offset, upsample_factor, dtype) ==
    LET z == Cx(Z8Root(-(((r - ax_offset) * FftFreqNum(n_items, c) * 8)
                         \div (n_items * upsample_factor))))
    IN  IF dtype = "complex" THEN z ELSE CRealPart(z)

\* variant: the new axis is put last instead of first
TensorDotLast_append(data, n_items, ups_size, ax_offset, upsample_factor) ==
    LET D    == Len(data.shape)
        L    == Size(data) \div n_items
        Elem(f) ==
            LET r    == f % ups_size
                lead == f \div ups_size
            IN  CSum([c \in 1..n_items |->
                    CMul(Kernel(r, c - 1, n_items, ax_offset, upsample_factor,
                                data.dtype),
                         data.data[lead * n_items + c])])
    IN  Array(SubSeq(data.shape, 1, D - 1) \o <<ups_size>>, data.dtype,
              [f \in 1..(ups_size * L) |-> Elem(f - 1)])

\* cp.tensordot(kernel, data, axes=(1, -1)) for the (ups_size x n_items)
\* kernel: contracts the last axis of data, the new axis comes first
TensorDotLast(data, n_items, ups_size, ax_offset, upsample_factor) ==
    LET D    == Len(data.shape)
        L    == Size(data) \div n_items
        Elem(f) ==
            LET r    == f \div L
                lead == f % L
            IN  CSum([c \in 1..n_items |->
                    CMul(Kernel(r, c - 1, n_items, ax_offset, upsample_factor,
                                data.dtype),
                         data.data[lead * n_items + c])])
    IN  Array(<<ups_size>> \o SubSeq(data.shape, 1, D - 1), data.dtype,
              [f \in 1..(ups_size * L) |-> Elem(f - 1)])

\* the loop over dim_properties[::-1]: axis i, then axes i-1 .. 1
RECURSIVE Contract(_, _, _, _, _, _)
Contract(data, shape, sizes, offsets, upsample_factor, i) ==
    IF i = 0 THEN data
    ELSE Bind({TensorDotLast(data, shape[i], sizes[i], offsets[i],
                             upsample_factor)},
              LAMBDA out : Contract(out, shape, sizes, offsets,
                                    upsample_factor, i - 1))

\* An argument that is an integer or a sequence, or that may be None
Scalar(n) == [iter |-> FALSE, val |-> <<n>>]

Sequence(s) == [iter |-> TRUE, val |-> s]

Absent == [iter |-> FALSE, val |-> <<>>]

Raised(msg) == [raised |-> msg, out |-> None]

Returned(a) == [raised |-> "", out |-> a]

MsgRegionSizes == "shape of upsampled region sizes must be equal to input data's number of dimensions."

MsgAxisOffsets == "number of axis offsets must be equal to input data's number of dimensions."

\* lines 53-58: a region size given as a sequence of the wrong length
RegionSizeMismatch(data, upsampled_region_size) ==
    upsampled_region_size.iter /\ Len(upsampled_region_size.val) # Ndim(data)

\* variant: the length of the offsets is not looked at
OffsetsMismatch_unchecked(data, axis_offsets) == FALSE

\* lines 60-65: offsets given, as a sequence of the wrong length
OffsetsMismatch(data, axis_offsets) ==
    axis_offsets # Absent /\ Len(axis_offsets.val) # Ndim(data)

_upsampled_dft(data, upsampled_region_size, upsample_factor, axis_offsets) ==
    LET sizes   == IF ~upsampled_region_size.iter
                   THEN [j \in 1..Ndim(data) |-> upsampled_region_size.val[1]]
                   ELSE upsampled_region_size.val
        offsets == IF axis_offsets = Absent
                   THEN [j \in 1..Ndim(data) |-> 0]
                   ELSE axis_offsets.val
    IN  IF RegionSizeMismatch(data, upsampled_region_size)
        THEN Raised(MsgRegionSizes)
        ELSE IF OffsetsMismatch(data, axis_offsets)
        THEN Raised(MsgAxisOffsets)
        ELSE Returned(Contract(data, data.shape, sizes, offsets,
                               upsample_factor, Ndim(data)))

----------------------------------------------------------------------------
(* _compute_phasediff and _compute_error.  arctan2 and sqrt are kept as    *)
(* terms over their exact arguments.                                       *)

_compute_phasediff(cross_correlation_max) ==
    [atan2_y |-> ImPart(cross_correlation_max),
     atan2_x |-> RePart(cross_correlation_max)]

_compute_error(cross_correlation_max, src_amp, target_amp) ==
    LET error == RAdd(RInt(1),
                      RNeg(RDiv(Norm2(cross_correlation_max),
                                RMul(src_amp, target_amp))))
    IN  [sqrt_of |-> RAbs(error)]

----------------------------------------------------------------------------
(* phase_cross_correlation: the values computed by each stage              *)

\* shift components are rationals [n, d], d > 0
Rat(n, d) == [n |-> n, d |-> d]

RatEq(x, y) == x.n * y.d = y.n * x.d

\* cp.around: round to the nearest integer, halves to the even one
Around(n, d) ==
    LET fl == n \div d
        rm == n % d
    IN  IF 2 * rm < d THEN fl
        ELSE IF 2 * rm > d THEN fl + 1
        ELSE IF fl % 2 = 0 THEN fl ELSE fl + 1

\* str.lower on the letters used here
LowerChar(c) ==
    CASE c = "R" -> "r" [] c = "E" -> "e" [] c = "A" -> "a" [] c = "L" -> "l"
      [] c = "F" -> "f" [] c = "O" -> "o" [] c = "U" -> "u" [] c = "I" -> "i"
      [] OTHER -> c

Lower(str) == [i \in 1..Len(str) |-> LowerChar(str[i])]

Str_real == <<"r", "e", "a", "l">>

Str_fourier == <<"f", "o", "u", "r", "i", "e", "r">>

\* variant: the transform applied in both branches
ToFrequency_always(image, space) ==
    IF Lower(space) = Str_fourier \/ Lower(space) = Str_real
    THEN fftn(image)
    ELSE None

\* lines 204-213: the frequency-domain array of an input, or no array when
\* the space argument is not recognised
ToFrequency(image, space) ==
    IF Lower(space) = Str_fourier THEN image
    ELSE IF Lower(space) = Str_real THEN fftn(image)
    ELSE None

\* variant: the comparison without str.lower
SpaceIsValid_exact(space) == space = Str_fourier \/ space = Str_real

SpaceIsValid(space) == Lower(space) = Str_fourier \/ Lower(space) = Str_real

\* variant: the midpoint rounded up
CoarseShifts_ceil(peak, shape) ==
    [j \in 1..Len(shape) |->
        IF peak[j] > (shape[j] + 1) \div 2 THEN Rat(peak[j] - shape[j], 1)
        ELSE Rat(peak[j], 1)]

\* variant: the raw peak index, without the wraparound past the midpoint
CoarseShifts_nowrap(peak, shape) ==
    [j \in 1..Len(shape) |-> Rat(peak[j], 1)]

\* lines 221-228: shifts[shifts > midpoints] -= shape[shifts > midpoints]
CoarseShifts(peak, shape) ==
    [j \in 1..Len(shape) |->
        IF peak[j] > shape[j] \div 2 THEN Rat(peak[j] - shape[j], 1)
        ELSE Rat(peak[j], 1)]

\* variant: the mean on both paths
Amplitude_mean(freq, mean) ==
    RDivInt(RSum(AbsSquared(freq)), Size(freq))

\* lines 232-237 and 267-272: sum of |x|^2, divided by the size when mean
Amplitude(freq, mean) ==
    LET total == RSum(AbsSquared(freq))
    IN  IF mean THEN RDivInt(total, Size(freq)) ELSE total

\* line 242: shifts = around(shifts * upsample_factor) / upsample_factor
SnapShifts(sh, upsample_factor) ==
    [j \in 1..Len(sh) |->
        Rat(Around(sh[j].n * upsample_factor, sh[j].d), upsample_factor)]

\* line 243: math.ceil(upsample_factor * 1.5)
RegionSize(upsample_factor) == (3 * upsample_factor + 1) \div 2

\* line 245: np.fix(upsampled_region_size / 2.0)
DftShift(upsample_factor) == RegionSize(upsample_factor) \div 2

\* variant: the offset taken on the other side of the window centre
SampleRegionOffset_plus(snapped, upsample_factor) ==
    [j \in 1..Len(snapped) |->
        DftShift(upsample_factor)
          + (snapped[j].n * upsample_factor) \div snapped[j].d]

\* line 248: dftshift - shifts * upsample_factor, for the snapped shifts
SampleRegionOffset(snapped, upsample_factor) ==
    [j \in 1..Len(snapped) |->
        DftShift(upsample_factor)
          - (snapped[j].n * upsample_factor) \div snapped[j].d]

\* lines 249-252
RefinedCorrelation(product, snapped, upsample_factor) ==
    Bind({ArrayConj(product)}, LAMBDA data :
    Bind({_upsampled_dft(data, Scalar(RegionSize(upsample_factor)),
                         upsample_factor,
                         Sequence(SampleRegionOffset(snapped,
                                                     upsample_factor)))},
         LAMBDA called : ArrayConj(called.out)))

\* lines 259-264: shifts + (maxima - dftshift) / upsample_factor
RefinedShifts(snapped, peak, upsample_factor) ==
    [j \in 1..Len(snapped) |->
        Rat(snapped[j].n * upsample_factor
              + (peak[j] - DftShift(upsample_factor)) * snapped[j].d,
            snapped[j].d * upsample_factor)]

\* variant: the shift vector left as computed
ZeroDegenerate_skip(sh, shape) == sh

\* lines 276-278
ZeroDegenerate(sh, shape) ==
    [j \in 1..Len(sh) |-> IF shape[j] = 1 THEN Rat(0, 1) ELSE sh[j]]

\* line 282
NaNObserved(ccmax, samp, tamp) ==
    IsNaN(ccmax) \/ samp.k = "nan" \/ tamp.k = "nan"

----------------------------------------------------------------------------
(* Inputs *)

MaxDim == 2

MaxSize == 4

AxisLengths == {1, 2, 4}

UpsampleFactors == {1, 2}

Spaces == { Str_real, <<"R", "E", "A", "L">>,
            <<"F", "o", "u", "r", "i", "e", "r">>, <<"f", "r", "e", "q">> }

Shapes ==
    { s \in UNION { [1..D -> AxisLengths] : D \in 1..MaxDim } :
        Prod(s) <= 2 * MaxSize }

\* images of 0 and 1 pixels
BinaryImages(shape) ==
    { Array(shape, "float", [n \in 1..Prod(shape) |-> CInt(f[n])]) :
        f \in [1..Prod(shape) -> {0, 1}] }

\* the zero image with its first pixel replaced by NaN
NaNImage(shape) ==
    Array(shape, "float",
          [n \in 1..Prod(shape) |-> IF n = 1 THEN NaN ELSE CZero])

OnesImage(shape) == Array(shape, "float", [n \in 1..Prod(shape) |-> CInt(1)])

\* images with a single pixel equal to 1
OneHotImages(shape) ==
    { Array(shape, "float",
            [n \in 1..Prod(shape) |-> IF n = h THEN CInt(1) ELSE CZero]) :
        h \in 1..Prod(shape) }

\* an image with pixels of both signs: 0, 1, 0, -1 repeated
SignedImage(shape) ==
    Array(shape, "float",
          [n \in 1..Prod(shape) |->
              CInt(CASE n % 4 = 2 -> 1 [] n % 4 = 0 -> -1 [] OTHER -> 0)])

\* an image without symmetry about its origin: 1, 1, -1, 0 repeated
SkewImage(shape) ==
    Array(shape, "float",
          [n \in 1..Prod(shape) |->
              CInt(CASE n % 4 = 3 -> -1 [] n % 4 = 0 -> 0 [] OTHER -> 1)])

\* the images of the calls: every binary image, a NaN image, a signed and a
\* skew image for the shapes of at most MaxSize pixels, the single-pixel
\* images for larger ones
Images(shape) ==
    IF Prod(shape) <= MaxSize
    THEN BinaryImages(shape)
             \cup {NaNImage(shape), SignedImage(shape), SkewImage(shape)}
    ELSE OneHotImages(shape)

HasNaN(image) == \E n \in 1..Size(image) : IsNaN(image.data[n])

\* an all-True mask of the image's shape
MaskOf(image) ==
    Array(image.shape, "bool", [n \in 1..Size(image) |-> CInt(1)])

OverlapDefault == <<3, 10>>

OverlapRatios == {OverlapDefault, <<1, 2>>}

\* the images of the calls that give a mask
MaskedImages ==
    { Array(<<1>>, "float", <<CZero>>), Array(<<1>>, "float", <<NaN>>),
      Array(<<2>>, "float", <<CZero, CInt(1)>>),
      Array(<<1, 2>>, "float", <<CInt(1), CZero>>) }

\* inputs of the direct calls of _upsampled_dft: by linearity of the
\* transform, arrays with a single non-zero element (1, or i for a complex
\* array)
DftShapes ==
    { s \in UNION { [1..D -> AxisLengths] : D \in 1..(MaxDim + 1) } :
        Prod(s) <= 2 * MaxSize }

OneHot(shape, dtype, h, value) ==
    Array(shape, dtype,
          [n \in 1..Prod(shape) |-> IF n = h THEN value ELSE CZero])

DftData ==
    UNION { UNION { { OneHot(shape, "float", h, CInt(1)),
                      OneHot(shape, "complex", h, Cx(<<0, 0, 1, 0>>)) } :
                    h \in 1..Prod(shape) } :
            shape \in DftShapes }

DftRegionSizes(data) ==
    { Scalar(2), Sequence(data.shape),
      Sequence([j \in 1..Ndim(data) |-> j + 1]),
      Sequence([j \in 1..(Ndim(data) + 1) |-> 2]),
      Sequence([j \in 1..(Ndim(data) - 1) |-> 2]) }

DftOffsets(data) ==
    { Absent, Sequence([j \in 1..Ndim(data) |-> 0]),
      Sequence([j \in 1..Ndim(data) |-> j]),
      Sequence([j \in 1..(Ndim(data) + 1) |-> 0]) }

----------------------------------------------------------------------------
(* State *)

VARIABLES
    pc,                 \* position of the call
    reference_image, moving_image, upsample_factor, space, return_error,
    reference_mask, moving_mask, overlap_ratio,           \* the arguments
    src_freq, target_freq, image_product, cross_correlation,
    maxima, shifts, CCmax, src_amp, target_amp,           \* the locals
    result,             \* what the call returned or raised
    stages,             \* the stages executed so far, in order
    dft_call, dft_result,   \* a direct call of _upsampled_dft
    owner,              \* the array object each array-valued name is bound to
    inplace,            \* the array objects updated in place so far
    at_call,            \* the values of the two images when the call was made
    fn_args, fn_out     \* a direct call of another function: arguments, outcome

args == << reference_image, moving_image, upsample_factor, space,
           return_error, reference_mask, moving_mask, overlap_ratio >>

locals == << src_freq, target_freq, image_product, cross_correlation,
             maxima, shifts, CCmax, src_amp, target_amp >>

options == << upsample_factor, space, return_error, reference_mask,
             moving_mask, overlap_ratio >>

heap == << owner, inplace, at_call >>

fn_vars == << fn_args, fn_out >>

vars == << pc, args, locals, result, stages, dft_call, dft_result, heap,
          fn_vars >>

\* no array is bound yet to the names that hold derived arrays
NoOwners == [src_freq |-> "none", target_freq |-> "none", src_abs |-> "none",
             target_abs |-> "none", shifts |-> "none"]

\* lines 206-207 and 210-211: in Fourier space the frequency array is the
\* caller's array itself, in real space a new array made by fft.fftn
FrequencyObject(fresh, input, sp) ==
    IF Lower(sp) = Str_fourier THEN input ELSE fresh

\* variant: the magnitude array is the operand itself
AbsObject_alias(fresh, operand) == operand

\* lines 232, 234, 267, 270: cp.abs(x) makes a new array
AbsObject(fresh, operand) == fresh

\* |x|^2 per element as an array: p + q*sqrt 2 = p + q*(zeta - zeta^3)
SquaredMagnitudes(a) ==
    Array(a.shape, a.dtype,
          [n \in 1..Size(a) |->
              LET m == Norm2(a.data[n])
              IN  IF m.k = "fin"
                  THEN [k |-> "fin", v |-> <<m.p, m.q, 0, -m.q>>, d |-> m.d]
                  ELSE NaN])

\* the value seen through a name bound to object obj after the object
\* written was squared in place (lines 233, 235, 268, 271)
AfterSquaring(value, obj, written) ==
    IF obj = written THEN SquaredMagnitudes(value) ELSE value

\* lines 232-235 and 267-271: the effect of the two in-place squarings on
\* the heap and on the arrays that share an object with a squared one
SquareInPlace(src_fresh, target_fresh) ==
    \E so \in {AbsObject(src_fresh, owner.src_freq)},
       to \in {AbsObject(target_fresh, owner.target_freq)} :
        /\ owner' = [owner EXCEPT !.src_abs = so, !.target_abs = to]
        /\ inplace' = inplace \cup {so, to}
        /\ reference_image' =
              AfterSquaring(AfterSquaring(reference_image, "reference_image", so),
                            "reference_image", to)
        /\ moving_image' =
              AfterSquaring(AfterSquaring(moving_image, "moving_image", so),
                            "moving_image", to)
        /\ src_freq' =
              AfterSquaring(AfterSquaring(src_freq, owner.src_freq, so),
                            owner.src_freq, to)
        /\ target_freq' =
              AfterSquaring(AfterSquaring(target_freq, owner.target_freq, so),
                            owner.target_freq, to)

Unset == [k |-> "unset", v |-> <<0, 0, 0, 0>>, d |-> 1]

RUnset == [k |-> "unset", p |-> 0, q |-> 0, d |-> 1]

NoResult == [kind |-> "none", shifts |-> <<>>, error |-> [sqrt_of |-> RUnset],
             phasediff |-> [atan2_y |-> RUnset, atan2_x |-> RUnset],
             msg |-> "", masked |-> <<>>]

ShiftsOnly(sh) == [NoResult EXCEPT !.kind = "shifts", !.shifts = sh]

Triple(sh, err, ph) ==
    [NoResult EXCEPT !.kind = "tuple", !.shifts = sh, !.error = err,
                     !.phasediff = ph]

ValueError(msg) == [NoResult EXCEPT !.kind = "ValueError", !.msg = msg]

MsgShape == "images must be same shape"

MsgSpace == "space argument must be 'real' of 'fourier'"

MsgNaN == "NaN values found, please remove NaNs from your input data or use the reference_mask/moving_mask keywords"

\* the outcome of the masked-correlation collaborator: an uninterpreted
\* function of exactly the five arguments it is called with
_masked_phase_cross_correlation(ref, mov, rmask, mmask, overlap) ==
    [NoResult EXCEPT !.kind = "masked",
                     !.masked = <<ref, mov, rmask, mmask, overlap>>]

\* variant: dispatches only when both masks are given
MaskGiven_both(rmask, mmask) == rmask # None /\ mmask # None

\* line 195
MaskGiven(rmask, mmask) == rmask # None \/ mmask # None

\* variant: compares the number of axes only
ShapesDiffer_ndim(ref, mov) == Len(ref.shape) # Len(mov.shape)

\* line 201
ShapesDiffer(ref, mov) == ref.shape # mov.shape

\* variant: the shift vector alone, whatever return_error
Outcome_shifts(ret_error, sh, ccmax, samp, tamp) == ShiftsOnly(sh)

\* lines 280-294: the NaN check, then the value returned
Outcome(ret_error, sh, ccmax, samp, tamp) ==
    IF ret_error
    THEN IF NaNObserved(ccmax, samp, tamp)
         THEN ValueError(MsgNaN)
         ELSE Triple(sh, _compute_error(ccmax, samp, tamp),
                     _compute_phasediff(ccmax))
    ELSE ShiftsOnly(sh)

Init ==
    /\ pc = "idle"
    /\ reference_image = None /\ moving_image = None
    /\ upsample_factor = 1 /\ space = Str_real /\ return_error = TRUE
    /\ reference_mask = None /\ moving_mask = None
    /\ overlap_ratio = OverlapDefault
    /\ src_freq = None /\ target_freq = None /\ image_product = None
    /\ cross_correlation = None
    /\ maxima = <<>> /\ shifts = <<>>
    /\ CCmax = Unset /\ src_amp = RUnset /\ target_amp = RUnset
    /\ result = NoResult
    /\ stages = <<>>
    /\ dft_call = <<>> /\ dft_result = Raised("")
    /\ owner = NoOwners /\ inplace = {} /\ at_call = <<None, None>>
    /\ fn_args = <<>> /\ fn_out = <<>>

\* phase_cross_correlation(reference_image, moving_image, ...) without masks
CallOn(shapes) ==
    /\ pc = "idle"
    /\ \E s1 \in shapes, s2 \in shapes :
          \E r \in (IF s1 = s2 THEN Images(s1) ELSE {OnesImage(s1)}),
             m \in (IF s1 = s2 THEN Images(s2) ELSE {OnesImage(s2), NaNImage(s2)}) :
              /\ reference_image' = r
              /\ moving_image' = m
    /\ upsample_factor' \in UpsampleFactors
    /\ space' \in Spaces
    /\ return_error' \in BOOLEAN
    /\ pc' = "start"
    /\ at_call' = << reference_image', moving_image' >>
    /\ UNCHANGED << reference_mask, moving_mask, overlap_ratio, locals,
                    result, stages, dft_call, dft_result, owner, inplace >>
    /\ UNCHANGED fn_vars

Call == CallOn(Shapes)

\* phase_cross_correlation(..., reference_mask=..., moving_mask=...) with
\* at least one mask
CallMasked ==
    /\ pc = "idle"
    /\ reference_image' \in MaskedImages
    /\ moving_image' \in MaskedImages
    /\ \E rm \in {None, MaskOf(reference_image')},
          mm \in {None, MaskOf(moving_image')} :
          /\ rm # None \/ mm # None
          /\ reference_mask' = rm
          /\ moving_mask' = mm
    /\ overlap_ratio' \in OverlapRatios
    /\ upsample_factor' \in UpsampleFactors
    /\ space' \in Spaces
    /\ return_error' \in BOOLEAN
    /\ pc' = "start"
    /\ at_call' = << reference_image', moving_image' >>
    /\ UNCHANGED << locals, result, stages, dft_call, dft_result, owner,
                    inplace >>
    /\ UNCHANGED fn_vars

\* lines 195-198
DispatchMasked ==
    /\ pc = "start"
    /\ MaskGiven(reference_mask, moving_mask)
    /\ stages' = Append(stages, "masked")
    /\ result' = _masked_phase_cross_correlation(reference_image, moving_image,
                                                 reference_mask, moving_mask,
                                                 overlap_ratio)
    /\ pc' = "done"
    /\ UNCHANGED << args, locals, dft_call, dft_result, heap >>
    /\ UNCHANGED fn_vars

\* variant: the space value is examined before the shapes
ValidateShapes_spacefirst ==
    /\ pc = "start"
    /\ ~MaskGiven(reference_mask, moving_mask)
    /\ stages' = Append(stages, "validate_shapes")
    /\ IF ~SpaceIsValid(space)
       THEN /\ pc' = "failed"
            /\ result' = ValueError(MsgSpace)
       ELSE IF ShapesDiffer(reference_image, moving_image)
       THEN /\ pc' = "failed"
            /\ result' = ValueError(MsgShape)
       ELSE /\ pc' = "transform"
            /\ UNCHANGED result
    /\ UNCHANGED << args, locals, dft_call, dft_result, heap >>
    /\ UNCHANGED fn_vars

\* line 201
ValidateShapes ==
    /\ pc = "start"
    /\ ~MaskGiven(reference_mask, moving_mask)
    /\ stages' = Append(stages, "validate_shapes")
    /\ IF ShapesDiffer(reference_image, moving_image)
       THEN /\ pc' = "failed"
            /\ result' = ValueError(MsgShape)
       ELSE /\ pc' = "transform"
            /\ UNCHANGED result
    /\ UNCHANGED << args, locals, dft_call, dft_result, heap >>
    /\ UNCHANGED fn_vars

\* lines 204-213
TransformToFrequency ==
    /\ pc = "transform"
    /\ stages' = Append(stages, "transform")
    /\ IF SpaceIsValid(space)
       THEN /\ src_freq' = ToFrequency(reference_image, space)
            /\ target_freq' = ToFrequency(moving_image, space)
            /\ owner' = [owner EXCEPT
                  !.src_freq = FrequencyObject("src_freq", "reference_image",
                                               space),
                  !.target_freq = FrequencyObject("target_freq", "moving_image",
                                                  space)]
            /\ pc' = "coarse"
            /\ UNCHANGED result
       ELSE /\ pc' = "failed"
            /\ result' = ValueError(MsgSpace)
            /\ UNCHANGED << src_freq, target_freq, owner >>
    /\ UNCHANGED << args, image_product, cross_correlation, maxima, shifts,
                    CCmax, src_amp, target_amp, dft_call, dft_result, inplace,
                    at_call >>
    /\ UNCHANGED fn_vars

\* lines 215-228
CoarseLocate ==
    /\ pc = "coarse"
    /\ stages' = Append(stages, "coarse")
    /\ \E product \in {ConjProduct(src_freq, target_freq)} :
         \E cc \in {ifftn(product)} :
           \E peak \in {unravel_index(argmax_abs(cc), cc.shape)} :
              /\ image_product' = product
              /\ cross_correlation' = cc
              /\ maxima' = peak
              /\ shifts' = CoarseShifts(peak, src_freq.shape)
    /\ owner' = [owner EXCEPT !.shifts = "shifts"]
    /\ inplace' = inplace \cup {"shifts"}
    /\ pc' = "branch"
    /\ UNCHANGED << args, src_freq, target_freq, CCmax, src_amp, target_amp,
                    result, dft_call, dft_result, at_call >>
    /\ UNCHANGED fn_vars

\* variant: the refiner also runs when upsample_factor is 1
NoUpsample_refining ==
    /\ pc = "branch"
    /\ upsample_factor = 1
    /\ stages' = Append(stages, "refine")
    /\ \E snapped \in {SnapShifts(shifts, upsample_factor)} :
         \E cc \in {RefinedCorrelation(image_product, snapped, upsample_factor)} :
           \E flat \in {argmax_abs(cc)} :
             \E peak \in {unravel_index(flat, cc.shape)} :
                /\ cross_correlation' = cc
                /\ CCmax' = cc.data[flat + 1]
                /\ maxima' = [k \in 1..Len(peak) |->
                                 peak[k] - DftShift(upsample_factor)]
                /\ shifts' = RefinedShifts(snapped, peak, upsample_factor)
    /\ pc' = "zeroing"
    /\ UNCHANGED << options, image_product, result, dft_call, dft_result,
                    src_amp, target_amp, reference_image, moving_image,
                    src_freq, target_freq, heap >>
    /\ UNCHANGED fn_vars

\* lines 230-238
NoUpsample ==
    /\ pc = "branch"
    /\ upsample_factor = 1
    /\ stages' = Append(stages, "no_upsample")
    /\ IF return_error
       THEN /\ src_amp' = Amplitude(src_freq, TRUE)
            /\ target_amp' = Amplitude(target_freq, TRUE)
            /\ CCmax' = cross_correlation.data[argmax_abs(cross_correlation) + 1]
            /\ SquareInPlace("sabs", "tabs")
       ELSE UNCHANGED << src_amp, target_amp, CCmax, reference_image,
                         moving_image, src_freq, target_freq, owner, inplace >>
    /\ pc' = "zeroing"
    /\ UNCHANGED << options, image_product, cross_correlation, maxima, shifts,
                    result, dft_call, dft_result, at_call >>
    /\ UNCHANGED fn_vars

\* lines 240-272
Refine ==
    /\ pc = "branch"
    /\ upsample_factor # 1
    /\ stages' = Append(stages, "refine")
    /\ \E snapped \in {SnapShifts(shifts, upsample_factor)} :
         \E cc \in {RefinedCorrelation(image_product, snapped, upsample_factor)} :
           \E flat \in {argmax_abs(cc)} :
             \E peak \in {unravel_index(flat, cc.shape)} :
                /\ cross_correlation' = cc
                /\ CCmax' = cc.data[flat + 1]
                /\ maxima' = [j \in 1..Len(peak) |->
                                 peak[j] - DftShift(upsample_factor)]
                /\ shifts' = RefinedShifts(snapped, peak, upsample_factor)
    /\ IF return_error
       THEN /\ src_amp' = Amplitude(src_freq, FALSE)
            /\ target_amp' = Amplitude(target_freq, FALSE)
            /\ SquareInPlace("src_amp", "target_amp")
       ELSE UNCHANGED << src_amp, target_amp, reference_image, moving_image,
                         src_freq, target_freq, owner, inplace >>
    /\ pc' = "zeroing"
    /\ UNCHANGED << options, image_product, result, dft_call, dft_result,
                    at_call >>
    /\ UNCHANGED fn_vars

\* variant: the zeroing pass is made before the branch on upsample_factor
DegenerateAxisZeroing_early ==
    /\ pc = "branch"
    /\ stages[Len(stages)] # "zeroing"
    /\ stages' = Append(stages, "zeroing")
    /\ shifts' = ZeroDegenerate(shifts, src_freq.shape)
    /\ inplace' = inplace \cup {owner.shifts}
    /\ pc' = "branch"
    /\ UNCHANGED << args, src_freq, target_freq, image_product,
                    cross_correlation, maxima, CCmax, src_amp, target_amp,
                    result, dft_call, dft_result, owner, at_call >>
    /\ UNCHANGED fn_vars

\* lines 274-278
DegenerateAxisZeroing ==
    /\ pc = "zeroing"
    /\ stages' = Append(stages, "zeroing")
    /\ shifts' = ZeroDegenerate(shifts, src_freq.shape)
    /\ inplace' = IF \E dim \in 1..Len(src_freq.shape) : src_freq.shape[dim] = 1
                  THEN inplace \cup {owner.shifts}
                  ELSE inplace
    /\ pc' = "metrics"
    /\ UNCHANGED << args, src_freq, target_freq, image_product,
                    cross_correlation, maxima, CCmax, src_amp, target_amp,
                    result, dft_call, dft_result, owner, at_call >>
    /\ UNCHANGED fn_vars

\* lines 280-292
ComputeMetrics ==
    /\ pc = "metrics"
    /\ return_error
    /\ stages' = Append(stages, "metrics")
    /\ result' = Outcome(return_error, shifts, CCmax, src_amp, target_amp)
    /\ pc' = IF result'.kind = "ValueError" THEN "failed" ELSE "done"
    /\ UNCHANGED << args, locals, dft_call, dft_result, heap >>
    /\ UNCHANGED fn_vars

\* lines 293-294
ReturnShifts ==
    /\ pc = "metrics"
    /\ ~return_error
    /\ stages' = Append(stages, "return_shifts")
    /\ result' = Outcome(return_error, shifts, CCmax, src_amp, target_amp)
    /\ pc' = "done"
    /\ UNCHANGED << args, locals, dft_call, dft_result, heap >>
    /\ UNCHANGED fn_vars

\* a direct call _upsampled_dft(data, upsampled_region_size,
\* upsample_factor, axis_offsets)
UpsampledDftCall ==
    /\ pc = "idle"
    /\ \E data \in DftData :
         \E size \in DftRegionSizes(data), off \in DftOffsets(data),
            u \in { f \in UpsampleFactors :
                      \A j \in 1..Ndim(data) : 8 % (data.shape[j] * f) = 0 } :
             /\ dft_call' = << data, size, u, off >>
             /\ dft_result' = _upsampled_dft(data, size, u, off)
             /\ pc' = IF dft_result'.raised = "" THEN "dft_returned"
                      ELSE "dft_raised"
    /\ UNCHANGED << args, locals, result, stages, heap >>
    /\ UNCHANGED fn_vars

Next ==
    \/ Call
    \/ CallMasked
    \/ DispatchMasked
    \/ ValidateShapes
    \/ TransformToFrequency
    \/ CoarseLocate
    \/ NoUpsample
    \/ Refine
    \/ DegenerateAxisZeroing
    \/ ComputeMetrics
    \/ ReturnShifts

Spec == Init /\ [][Next]_vars

\* the body of a call runs to its return or raise: straight-line code and
\* loops over the axes
Run ==
    \/ DispatchMasked
    \/ ValidateShapes
    \/ TransformToFrequency
    \/ CoarseLocate
    \/ NoUpsample
    \/ Refine
    \/ DegenerateAxisZeroing
    \/ ComputeMetrics
    \/ ReturnShifts

\* the calls on images of at most two pixels
SmallShapes == { s \in Shapes : Prod(s) <= 2 }

CallSmall == CallOn(SmallShapes)

NextLive ==
    \/ CallSmall
    \/ CallMasked
    \/ Run

SpecLive == Init /\ [][NextLive]_vars /\ WF_vars(Run)

\* direct calls of the upsampled DFT evaluator
NextDft == UpsampledDftCall

SpecDft == Init /\ [][NextDft]_vars

\* The shift arithmetic of the refiner (lines 242-264) for any factor the
\* interface accepts. A factor is a rational [n, d]; the peak of the window
\* depends on the image data and is left free here.

MaxFactor == 3

\* factors in lowest terms, greater than 1, with a finite binary expansion
Factors ==
    { Rat(n, d) : d \in {1, 2, 4}, n \in 2..(4 * MaxFactor) } \cap
    { f \in [n : 2..(4 * MaxFactor), d : {1, 2, 4}] :
         /\ f.n > f.d /\ f.n <= MaxFactor * f.d
         /\ f.d > 1 => f.n % 2 = 1 }

\* whole-pixel shifts as the coarse stage leaves them
CoarseVectors ==
    UNION { [1..D -> { Rat(k, 1) : k \in (0 - MaxSize \div 2)..(MaxSize \div 2) }] :
            D \in 1..MaxDim }

\* line 242: cp.around(shifts * upsample_factor) / upsample_factor
SnapShiftsAt(sh, f) ==
    [j \in 1..Len(sh) |->
        Rat(Around(sh[j].n * f.n, sh[j].d * f.d) * f.d, f.n)]

\* line 243: math.ceil(upsample_factor * 1.5)
RegionSizeAt(f) == (3 * f.n + 2 * f.d - 1) \div (2 * f.d)

\* variant: the window starts at the snapped shift
DftShiftAt_zero(f) == 0

\* line 245: np.fix(upsampled_region_size / 2.0)
DftShiftAt(f) == RegionSizeAt(f) \div 2

\* variant: the window peak is not added
RefinedShiftsAt_snapped(snapped, peak, f) == snapped

\* lines 259-264: shifts + (maxima - dftshift) / upsample_factor
RefinedShiftsAt(snapped, peak, f) ==
    [j \in 1..Len(snapped) |->
        Rat(snapped[j].n * f.n + (peak[j] - DftShiftAt(f)) * f.d * snapped[j].d,
            snapped[j].d * f.n)]

\* lines 215-228 have left a whole-pixel shift; upsample_factor is not 1
CoarseGiven ==
    /\ pc = "idle"
    /\ \E coarse \in CoarseVectors, f \in Factors :
          /\ shifts' = coarse
          /\ upsample_factor' = f
    /\ pc' = "coarse_given"
    /\ UNCHANGED << reference_image, moving_image, space, return_error,
                    reference_mask, moving_mask, overlap_ratio, src_freq,
                    target_freq, image_product, cross_correlation, maxima,
                    CCmax, src_amp, target_amp, result, stages, dft_call,
                    dft_result, heap >>
    /\ UNCHANGED fn_vars

\* lines 242-264, for a peak anywhere in the window
RefineShifts ==
    /\ pc = "coarse_given"
    /\ \E peak \in [1..Len(shifts) -> 0..(RegionSizeAt(upsample_factor) - 1)] :
          /\ maxima' = [j \in 1..Len(peak) |->
                           peak[j] - DftShiftAt(upsample_factor)]
          /\ shifts' = RefinedShiftsAt(SnapShiftsAt(shifts, upsample_factor),
                                       peak, upsample_factor)
    /\ pc' = "shift_refined"
    /\ UNCHANGED << args, src_freq, target_freq, image_product,
                    cross_correlation, CCmax, src_amp, target_amp, result,
                    stages, dft_call, dft_result, heap >>
    /\ UNCHANGED fn_vars

NextShift == CoarseGiven \/ RefineShifts

SpecShift == Init /\ [][NextShift]_vars

----------------------------------------------------------------------------
(* Lines 220-228 on their own: a peak index anywhere in a correlation of   *)
(* any shape, odd lengths included.                                        *)

PeakShapes == UNION { [1..D -> 1..(MaxSize + 1)] : D \in 1..MaxDim }

\* line 220: every index of an array of the given shape
PeaksOf(shape) ==
    { peak \in [1..Len(shape) -> 0..MaxSize] :
         \A j \in 1..Len(shape) : peak[j] < shape[j] }

\* the maximum of a correlation of the given shape is at the given index
CoarsePeakCall ==
    /\ pc = "idle"
    /\ \E shape \in PeakShapes :
          \E peak \in PeaksOf(shape) :
             /\ fn_args' = << shape, peak >>
             /\ fn_out' = CoarseShifts(peak, shape)
    /\ pc' = "peak_located"
    /\ UNCHANGED << args, locals, result, stages, dft_call, dft_result, heap >>

NextPeak == CoarsePeakCall

SpecPeak == Init /\ [][NextPeak]_vars

----------------------------------------------------------------------------
(* transform/_warps.py: _clip_warp_output.  The function works element by  *)
(* element, so an image is the sequence of its elements; an element is a   *)
(* real scalar or NaN.                                                     *)

MaxValue == 2

MaxLen == 2

\* IEEE comparisons: every comparison with NaN is false
FLessEq(x, y) == x.k = "fin" /\ y.k = "fin" /\ ~RLess(y, x)

FLess(x, y) == x.k = "fin" /\ y.k = "fin" /\ RLess(x, y)

FEqual(x, y) == x.k = "fin" /\ y.k = "fin" /\ REq(x, y)

\* input_image.min() and input_image.max() of an image without NaN
MinOf(image) ==
    CHOOSE m \in { image[n] : n \in 1..Len(image) } :
        \A n \in 1..Len(image) : ~RLess(image[n], m)

MaxOf(image) ==
    CHOOSE m \in { image[n] : n \in 1..Len(image) } :
        \A n \in 1..Len(image) : ~RLess(m, image[n])

\* cp.clip on one element: comparisons against the two bounds, which leave
\* a NaN element as it is
ClipElement(x, min_val, max_val) ==
    IF FLess(x, min_val) THEN min_val
    ELSE IF FLess(max_val, x) THEN max_val
    ELSE x

\* variant: the test of line 728 without the order
ClipApplies_anyorder(order, clip) == clip

\* line 728: clip and order != 0
ClipApplies(order, clip) == clip /\ order # 0

\* variant: cval is never put back
PreserveCval_never(mode, cval, min_val, max_val) == FALSE

\* lines 732-733
PreserveCval(mode, cval, min_val, max_val) ==
    /\ mode = "constant"
    /\ ~(FLessEq(min_val, cval) /\ FLessEq(cval, max_val))

\* lines 728-741: output_image after the call
_clip_warp_output(input_image, output_image, order, mode, cval, clip) ==
    IF ClipApplies(order, clip)
    THEN LET min_val == MinOf(input_image)
             max_val == MaxOf(input_image)
             preserve_cval == PreserveCval(mode, cval, min_val, max_val)
             cval_mask == [n \in 1..Len(output_image) |->
                              preserve_cval /\ FEqual(output_image[n], cval)]
         IN  [n \in 1..Len(output_image) |->
                 IF cval_mask[n] THEN cval
                 ELSE ClipElement(output_image[n], min_val, max_val)]
    ELSE output_image

\* input images: two elements in 0..MaxValue, so that every pair of a
\* minimum and a maximum occurs
ClipInputs == [1..2 -> { RInt(v) : v \in 0..MaxValue }]

\* elements of the image to clip and values of cval: below, inside and
\* above every input range, and NaN
ClipValues == { RInt(v) : v \in (0 - 1)..(MaxValue + 1) } \cup {RNaN}

ClipOutputs == UNION { [1..L -> ClipValues] : L \in 1..MaxLen }

ClipOrders == {0, 1}

ClipModes == {"constant", "edge"}

\* a call _clip_warp_output(input_image, output_image, order, mode, cval,
\* clip); fn_out is output_image after the call
ClipWarpOutputCall ==
    /\ pc = "idle"
    /\ \E input_image \in ClipInputs, output_image \in ClipOutputs,
          order \in ClipOrders, mode \in ClipModes, cval \in ClipValues,
          clip \in BOOLEAN :
          /\ fn_args' = << input_image, output_image, order, mode, cval, clip >>
          /\ fn_out' = _clip_warp_output(input_image, output_image, order,
                                         mode, cval, clip)
    /\ pc' = "clip_returned"
    /\ UNCHANGED << args, locals, result, stages, dft_call, dft_result, heap >>

NextClip == ClipWarpOutputCall

SpecClip == Init /\ [][NextClip]_vars

----------------------------------------------------------------------------
(* transform/_warps.py: resize, as far as the shapes go.  The pixel values *)
(* of the filter and of the interpolation are not modelled; the steps      *)
(* executed and the shape of the result are.                               *)

MsgOutputShape == "len(output_shape) cannot be smaller than the image dimensions"

\* (1,) * n
Ones(n) == [j \in 1..n |-> 1]

\* lines 103-106: output_shape after the multichannel completion
CompletedOutputShape(image_shape, output_shape) ==
    IF Len(output_shape) = Len(image_shape) - 1
    THEN Append(output_shape, image_shape[Len(image_shape)])
    ELSE output_shape

\* lines 99-102: input_shape, extended by axes of length 1
ExtendedInputShape(image_shape, output_shape) ==
    IF Len(output_shape) > Len(image_shape)
    THEN image_shape \o Ones(Len(output_shape) - Len(image_shape))
    ELSE image_shape

\* line 107
TooFewDimensions(image_shape, output_shape) ==
    Len(output_shape) < Len(image_shape) - 1

\* line 121: si / so over zip(input_shape, output_shape), as rationals
Factors_of(input_shape, output_shape) ==
    [j \in 1..(IF Len(input_shape) < Len(output_shape)
               THEN Len(input_shape) ELSE Len(output_shape)) |->
        Rat(input_shape[j], output_shape[j])]

\* variant: the factors used as zoom factors
ZoomFactors_direct(factors) == factors

\* line 163: 1 / f
ZoomFactors(factors) == [j \in 1..Len(factors) |-> Rat(factors[j].d, factors[j].n)]

\* ndi.zoom: the output has round(length * zoom) elements on every axis
ZoomedShape(input_shape, zoom_factors) ==
    [j \in 1..Len(input_shape) |->
        Around(input_shape[j] * zoom_factors[j].n, zoom_factors[j].d)]

\* line 123: anti_aliasing and any(f > 1 for f in factors)
Filters(anti_aliasing, factors) ==
    anti_aliasing /\ \E j \in 1..Len(factors) : factors[j].n > factors[j].d

\* lines 94-167 for a float image, default order, mode and sigma: the error
\* raised or the shape of the array returned, with the steps executed
resize(image_shape, output_shape, anti_aliasing) ==
    IF TooFewDimensions(image_shape, output_shape)
    THEN [raised |-> MsgOutputShape, shape |-> <<>>, steps |-> <<>>,
          zoom_factors |-> <<>>]
    ELSE LET input_shape == ExtendedInputShape(image_shape, output_shape)
             completed == CompletedOutputShape(image_shape, output_shape)
             factors == Factors_of(input_shape, completed)
             zoom_factors == ZoomFactors(factors)
         IN  [raised |-> "",
              shape |-> ZoomedShape(input_shape, zoom_factors),
              steps |-> (IF Filters(anti_aliasing, factors)
                         THEN <<"gaussian_filter">> ELSE <<>>)
                        \o <<"zoom", "clip">>,
              zoom_factors |-> zoom_factors]

ResizeLengths == {1, 2, 3}

ImageShapes == UNION { [1..D -> ResizeLengths] : D \in 1..(MaxDim + 1) }

OutputShapes == UNION { [1..D -> ResizeLengths] : D \in 1..(MaxDim + 2) }

\* a call resize(image, output_shape, anti_aliasing=...)
ResizeCall ==
    /\ pc = "idle"
    /\ \E image_shape \in ImageShapes, output_shape \in OutputShapes,
          anti_aliasing \in BOOLEAN :
          /\ fn_args' = << image_shape, output_shape, anti_aliasing >>
          /\ fn_out' = resize(image_shape, output_shape, anti_aliasing)
    /\ pc' = "resize_returned"
    /\ UNCHANGED << args, locals, result, stages, dft_call, dft_result, heap >>

NextResize == ResizeCall

SpecResize == Init /\ [][NextResize]_vars

----------------------------------------------------------------------------
(* transform/_warps.py: warp_coords and _stackcopy.  Coordinates are       *)
(* integers; an array is [shape, data] with data in row-major order.       *)

Grid(shape, data) == [shape |-> shape, data |-> Eval(data)]

\* the element of an array at a multi-index (0-based)
ElementAt(a, idx) == a.data[ISum([j \in 1..Len(idx) |-> idx[j] * Stride(a.shape, j)]) + 1]

\* cp.indices((n0, n1)): plane k holds the index along axis k
Indices(n0, n1) ==
    Grid(<<2, n0, n1>>,
         [f \in 1..(2 * n0 * n1) |->
             unravel_index(f - 1, <<2, n0, n1>>)[
                 unravel_index(f - 1, <<2, n0, n1>>)[1] + 2]])

\* a.reshape(shape): the same elements in the same row-major order
Reshape(a, shape) == Grid(shape, a.data)

\* a.T of a two-axis array
Transposed(a) ==
    Grid(<<a.shape[2], a.shape[1]>>,
         [f \in 1..Size(a) |->
             LET idx == unravel_index(f - 1, <<a.shape[2], a.shape[1]>>)
             IN  ElementAt(a, <<idx[2], idx[1]>>)])

\* a.swapaxes(1, 2) of a three-axis array
Swapaxes12(a) ==
    Grid(<<a.shape[1], a.shape[3], a.shape[2]>>,
         [f \in 1..Size(a) |->
             LET idx == unravel_index(f - 1,
                                      <<a.shape[1], a.shape[3], a.shape[2]>>)
             IN  ElementAt(a, <<idx[1], idx[3], idx[2]>>)])

\* a[k, ...] of a three-axis array
Plane(a, k) ==
    Grid(<<a.shape[2], a.shape[3]>>,
         [f \in 1..(a.shape[2] * a.shape[3]) |->
             a.data[k * a.shape[2] * a.shape[3] + f]])

\* the coordinate maps given by the callers: each maps a (P, 2) array row
\* by row
CoordMaps == {"identity", "exchange", "shift", "scale", "origin"}

MapPair(coord_map, pair) ==
    CASE coord_map = "identity" -> pair
      [] coord_map = "exchange" -> << pair[2], pair[1] >>
      [] coord_map = "shift" -> << pair[1] + 20, pair[2] - 10 >>
      [] coord_map = "scale" -> << 2 * pair[1], 3 * pair[2] >>
      [] OTHER -> << 0, 0 >>

ApplyMap(coord_map, tf_coords) ==
    Grid(tf_coords.shape,
         [f \in 1..Size(tf_coords) |->
             MapPair(coord_map,
                     << tf_coords.data[2 * ((f - 1) \div 2) + 1],
                        tf_coords.data[2 * ((f - 1) \div 2) + 2] >>)[
                 ((f - 1) % 2) + 1]])

\* line 676: cp.indices((cols, rows)).reshape(2, -1).T
GridCoordinates(rows, cols) ==
    Transposed(Reshape(Indices(cols, rows), <<2, rows * cols>>))

\* lines 595-615: the layer, or the whole of a two-axis target, after
\* _stackcopy(a, b); a has the shape a_shape
_stackcopy(a_shape, b) ==
    IF Len(a_shape) = 3
    THEN Grid(a_shape,
              [f \in 1..Prod(a_shape) |->
                  LET idx == unravel_index(f - 1, a_shape)
                  IN  ElementAt(b, <<idx[1], idx[2]>>)])
    ELSE Grid(a_shape, b.data)

\* lines 669-695: the array passed to coord_map and the array returned
warp_coords(coord_map, shape) ==
    LET rows == shape[1]
        cols == shape[2]
        coords_shape == <<Len(shape), rows, cols>>
                          \o (IF Len(shape) = 3 THEN <<shape[3]>> ELSE <<>>)
        passed == GridCoordinates(rows, cols)
        mapped == ApplyMap(coord_map, passed)
        tf_coords == Swapaxes12(Reshape(Transposed(mapped), <<2, cols, rows>>))
        plane1 == _stackcopy(Tail(coords_shape), Plane(tf_coords, 0))
        plane0 == _stackcopy(Tail(coords_shape), Plane(tf_coords, 1))
        plane2 == IF Len(shape) = 3
                  THEN [f \in 1..Prod(shape) |-> (f - 1) % shape[3]]
                  ELSE <<>>
    IN  [passed |-> passed,
         coords |-> Grid(coords_shape, plane0.data \o plane1.data \o plane2)]

WarpShapes ==
    UNION { [1..2 -> 1..(MaxLen + 1)],
            { rc \o <<bands>> : rc \in [1..2 -> 1..(MaxLen + 1)],
                                bands \in 1..MaxLen } }

\* a call warp_coords(coord_map, shape)
WarpCoordsCall ==
    /\ pc = "idle"
    /\ \E coord_map \in CoordMaps, shape \in WarpShapes :
          /\ fn_args' = << coord_map, shape >>
          /\ fn_out' = warp_coords(coord_map, shape)
    /\ pc' = "coords_returned"
    /\ UNCHANGED << args, locals, result, stages, dft_call, dft_result, heap >>

NextCoords == WarpCoordsCall

SpecCoords == Init /\ [][NextCoords]_vars

----------------------------------------------------------------------------
(* morphology/selem.py: diamond.                                            *)

MaxRadius == 12

Abs(x) == IF x < 0 THEN -x ELSE x

\* np.arange(0, radius * 2 + 1)
Arange(stop) == [k \in 1..(IF stop > 0 THEN stop ELSE 0) |-> k - 1]

\* variant: the chessboard distance
CityBlock_chessboard(i, j, radius) ==
    IF Abs(i - radius) > Abs(j - radius) THEN Abs(i - radius)
    ELSE Abs(j - radius)

\* line 97: np.abs(I - radius) + np.abs(J - radius)
CityBlock(i, j, radius) == Abs(i - radius) + Abs(j - radius)

\* the value of a boolean in the given dtype
AsType(b, dtype) == IF dtype = "bool" THEN b ELSE IF b THEN 1 ELSE 0

\* lines 94-98: I varies along the columns and J along the rows of the
\* sparse mesh grid
diamond(radius, dtype) ==
    LET L == Arange(radius * 2 + 1)
    IN  [shape |-> << Len(L), Len(L) >>,
         dtype |-> dtype,
         data |-> [f \in 1..(Len(L) * Len(L)) |->
                     LET J == L[((f - 1) \div Len(L)) + 1]
                         I == L[((f - 1) % Len(L)) + 1]
                     IN  AsType(CityBlock(I, J, radius) <= radius, dtype)]]

Radii == 0..MaxRadius

Dtypes == {"uint8", "int8", "int16", "int32", "int64", "float32", "float64",
           "bool"}

\* a call diamond(radius, dtype)
DiamondCall ==
    /\ pc = "idle"
    /\ \E radius \in Radii, dtype \in Dtypes :
          /\ fn_args' = << radius, dtype >>
          /\ fn_out' = diamond(radius, dtype)
    /\ pc' = "diamond_returned"
    /\ UNCHANGED << args, locals, result, stages, dft_call, dft_result, heap >>

NextDiamond == DiamondCall

SpecDiamond == Init /\ [][NextDiamond]_vars

----------------------------------------------------------------------------
(* The call as a function of its arguments: the stages above, composed.    *)

\* lines 215-294, from the two frequency-domain arrays
Registration(sf, tf, u, ret_error) ==
    Bind({ConjProduct(sf, tf)}, LAMBDA product :
    Bind({ifftn(product)}, LAMBDA cc :
    Bind({argmax_abs(cc)}, LAMBDA flat0 :
    Bind({CoarseShifts(unravel_index(flat0, cc.shape), sf.shape)}, LAMBDA coarse :
        IF u = 1
        THEN Outcome(ret_error, ZeroDegenerate(coarse, sf.shape),
                     IF ret_error THEN cc.data[flat0 + 1] ELSE Unset,
                     IF ret_error THEN Amplitude(sf, TRUE) ELSE RUnset,
                     IF ret_error THEN Amplitude(tf, TRUE) ELSE RUnset)
        ELSE
    Bind({SnapShifts(coarse, u)}, LAMBDA snapped :
    Bind({RefinedCorrelation(product, snapped, u)}, LAMBDA rc :
    Bind({argmax_abs(rc)}, LAMBDA flat :
        Outcome(ret_error,
                ZeroDegenerate(RefinedShifts(snapped,
                                             unravel_index(flat, rc.shape), u),
                               sf.shape),
                rc.data[flat + 1],
                IF ret_error THEN Amplitude(sf, FALSE) ELSE RUnset,
                IF ret_error THEN Amplitude(tf, FALSE) ELSE RUnset))))))))

phase_cross_correlation(ref, mov, u, sp, ret_error, rmask, mmask, overlap) ==
    IF MaskGiven(rmask, mmask)
    THEN _masked_phase_cross_correlation(ref, mov, rmask, mmask, overlap)
    ELSE IF ShapesDiffer(ref, mov) THEN ValueError(MsgShape)
    ELSE IF ~SpaceIsValid(sp) THEN ValueError(MsgSpace)
    ELSE Bind({ToFrequency(ref, sp)}, LAMBDA sf :
         Bind({ToFrequency(mov, sp)}, LAMBDA tf :
             Registration(sf, tf, u, ret_error)))

\* the call has returned or raised
Terminated == pc \in {"done", "failed"}

\* the stage-by-stage run ends with the value of the composed function
StepwiseAgrees ==
    Terminated =>
        result = phase_cross_correlation(reference_image, moving_image,
                                         upsample_factor, space, return_error,
                                         reference_mask, moving_mask,
                                         overlap_ratio)

----------------------------------------------------------------------------
(* Properties *)

NoMasks == reference_mask = None /\ moving_mask = None

NoNumericWork ==
    /\ src_freq = None /\ target_freq = None
    /\ image_product = None /\ cross_correlation = None
    /\ maxima = <<>> /\ shifts = <<>>
    /\ CCmax = Unset /\ src_amp = RUnset /\ target_amp = RUnset

\* C1: an unmasked call whose two images differ in shape fails with the
\* shape-mismatch error, for every upsample_factor, and it does so as its
\* first step: no transform, product, correlation or peak has been computed.
C1_ShapeMismatchFails ==
    ( /\ pc \notin {"idle", "start"}
      /\ NoMasks
      /\ reference_image.shape # moving_image.shape )
    => /\ pc = "failed"
       /\ result = ValueError(MsgShape)
       /\ NoNumericWork
       /\ stages = <<"validate_shapes">>

C1_Witness ==
    /\ pc = "failed" /\ NoMasks
    /\ reference_image.shape # moving_image.shape
    /\ upsample_factor = 2
    /\ result.msg = MsgShape

\* C2: when reference_mask or moving_mask is given the call returns the
\* collaborator's outcome on (reference_image, moving_image, reference_mask,
\* moving_mask, overlap_ratio) unchanged, no other stage runs, and the
\* outcome is the same for every upsample_factor, space and return_error.
C2_MaskedBypass ==
    ( /\ pc \notin {"idle", "start"}
      /\ (reference_mask # None \/ moving_mask # None) )
    => /\ pc = "done"
       /\ result = _masked_phase_cross_correlation(
                       reference_image, moving_image, reference_mask,
                       moving_mask, overlap_ratio)
       /\ NoNumericWork
       /\ stages = <<"masked">>
       /\ \A u2 \in UpsampleFactors, sp2 \in Spaces, re2 \in BOOLEAN :
             phase_cross_correlation(reference_image, moving_image, u2, sp2,
                                     re2, reference_mask, moving_mask,
                                     overlap_ratio) = result

\* a masked call with one mask only, images of different shapes, a NaN pixel
\* and an unrecognised space
C2_Witness ==
    /\ pc = "done"
    /\ reference_mask # None /\ moving_mask = None
    /\ reference_image.shape # moving_image.shape
    /\ HasNaN(reference_image)
    /\ space = <<"f", "r", "e", "q">>
    /\ result.kind = "masked"

\* the image moved circularly by d: out[(i + d) mod n] = image[i] on every
\* axis (numpy.roll)
Roll(image, d) ==
    LET D == Len(image.shape)
        Src(k) ==
            LET idx == unravel_index(k, image.shape)
            IN  ISum([j \in 1..D |->
                    ((idx[j] - d[j]) % image.shape[j]) * Stride(image.shape, j)])
    IN  Array(image.shape, image.dtype,
              [n \in 1..Size(image) |-> image.data[Src(n - 1) + 1]])

\* the circular autocorrelation A[x] = sum_i image[i] * conj(image[i + x])
AutoCorrelation(image) ==
    LET D == Len(image.shape)
        At(k, x) ==
            LET i == unravel_index(k, image.shape)
                o == unravel_index(x, image.shape)
            IN  ISum([j \in 1..D |->
                    ((i[j] + o[j]) % image.shape[j]) * Stride(image.shape, j)])
    IN  Eval([x \in 1..Size(image) |->
            CSum([k \in 1..Size(image) |->
                CMul(image.data[k], CConj(image.data[At(k - 1, x - 1) + 1]))])])

\* the magnitude of the autocorrelation is largest at exactly one lag
UniqueAutocorrelationMax(image) ==
    /\ ~HasNaN(image)
    /\ LET A == AutoCorrelation(image)
       IN  \E x \in 1..Len(A) :
              \A y \in 1..Len(A) : y # x => RLess(Norm2(A[y]), Norm2(A[x]))

\* the integer vectors within the half-extent of every axis
ShiftVectors(shape) ==
    { d \in [1..Len(shape) -> -(MaxSize \div 2)..(MaxSize \div 2)] :
        \A j \in 1..Len(shape) :
            -(shape[j] \div 2) <= d[j] /\ d[j] <= shape[j] \div 2 }

ShiftsAre(sh, d) ==
    /\ Len(sh) = Len(d)
    /\ \A j \in 1..Len(d) : sh[j].n = d[j] * sh[j].d

ZeroError(res) == REq(res.error.sqrt_of, RInt(0))

\* arctan2(y, x) = 0 exactly when y = 0 and x >= 0
ZeroPhase(res) ==
    /\ res.phasediff.atan2_y.k = "fin" /\ RSign(res.phasediff.atan2_y) = 0
    /\ res.phasediff.atan2_x.k = "fin" /\ RSign(res.phasediff.atan2_x) >= 0

\* a default call (real space, errors returned) with upsample_factor = 1 on an
\* image with a unique autocorrelation maximum has returned
RecoveryCase ==
    /\ pc = "done" /\ NoMasks
    /\ upsample_factor = 1 /\ space = Str_real /\ return_error
    /\ UniqueAutocorrelationMax(reference_image)

IsZeroImage(image) ==
    \A n \in 1..Size(image) : CEq(image.data[n], CZero)

\* C3 as stated: for moving = reference moved circularly by d, within the
\* half-extent of every axis, the call returns the shift d with zero error
\* and zero phase difference.  Read here in its most favourable sense: for
\* references of non-zero energy and displacements strictly inside the
\* half-extent, where d is determined by the two images.
C3_ReturnsAppliedShift ==
    (RecoveryCase /\ ~IsZeroImage(reference_image)) =>
        \A d \in ShiftVectors(reference_image.shape) :
            ( /\ moving_image = Roll(reference_image, d)
              /\ \A j \in 1..Len(d) :
                    2 * d[j] < reference_image.shape[j]
                    /\ -2 * d[j] < reference_image.shape[j] )
            => /\ ShiftsAre(result.shifts, d)
               /\ ZeroError(result)
               /\ ZeroPhase(result)

\* the shift that moves the moving image back onto the reference: -d, and
\* +n/2 for a displacement of half an even axis in either direction
RegisteringShift(d, shape) ==
    [j \in 1..Len(d) |->
        IF 2 * d[j] = shape[j] \/ 2 * d[j] = -shape[j] THEN shape[j] \div 2
        ELSE -d[j]]

\* C3 amended: for moving = reference moved circularly by d (numpy.roll),
\* the call returns the registering shift (-d0, -d1, ...), a component of
\* half an even axis being returned as +n/2, with zero phase difference and,
\* in exact arithmetic, zero error; the one image of zero energy that has a
\* unique autocorrelation maximum, the single zero pixel, gets the error
\* NaN instead (the 0/0 of C9).
C3_ReturnsRegisteringShift ==
    RecoveryCase =>
        \A d \in ShiftVectors(reference_image.shape) :
            moving_image = Roll(reference_image, d)
            => /\ ShiftsAre(result.shifts,
                            RegisteringShift(d, reference_image.shape))
               /\ IF IsZeroImage(reference_image)
                  THEN Size(reference_image) = 1
                       /\ result.error.sqrt_of.k = "nan"
                  ELSE ZeroError(result)
               /\ ZeroPhase(result)

\* an axis of length 4 on which the image was moved by +1 and the call
\* returned -1
C3_Witness ==
    /\ RecoveryCase
    /\ \E j \in 1..Len(reference_image.shape) :
          /\ reference_image.shape[j] = 4
          /\ \E d \in ShiftVectors(reference_image.shape) :
                /\ d[j] = 1
                /\ moving_image = Roll(reference_image, d)
                /\ result.shifts[j].n = -result.shifts[j].d

\* a letter and its capital
CasePairs ==
    { <<"r", "R">>, <<"e", "E">>, <<"a", "A">>, <<"l", "L">>, <<"f", "F">>,
      <<"o", "O">>, <<"u", "U">>, <<"i", "I">> }

\* str is word (in small letters) up to the case of its letters
SameIgnoringCase(str, word) ==
    /\ Len(str) = Len(word)
    /\ \A i \in 1..Len(word) :
          str[i] = word[i] \/ <<word[i], str[i]>> \in CasePairs

\* the space argument reads "real" or "fourier" in any mix of cases
AcceptedSpelling(str) ==
    \/ SameIgnoringCase(str, <<"r", "e", "a", "l">>)
    \/ SameIgnoringCase(str, <<"f", "o", "u", "r", "i", "e", "r">>)

\* C4: an unmasked call on images of one shape, with an accepted space,
\* whose inputs contain a NaN fails with the NaN-specific error and never
\* returns a result computed from NaN data.
C4_NaNGuard ==
    ( /\ Terminated /\ NoMasks
      /\ reference_image.shape = moving_image.shape
      /\ AcceptedSpelling(space)
      /\ (HasNaN(reference_image) \/ HasNaN(moving_image)) )
    => /\ pc = "failed"
       /\ result = ValueError(MsgNaN)

\* C5: in an unmasked call that has returned, the shift component of every
\* axis of length 1 is exactly 0, whatever the upsample_factor, the refined
\* peak index on that axis and the shifts of the other axes.
C5_DegenerateAxisZero ==
    (pc = "done" /\ NoMasks) =>
        \A j \in 1..Len(reference_image.shape) :
            reference_image.shape[j] = 1 => result.shifts[j].n = 0

\* a refined call whose peak on an axis of length 1 is off the window centre
\* while another axis has a non-zero shift
C5_Witness ==
    /\ pc = "done" /\ NoMasks /\ upsample_factor = 2
    /\ \E j, k \in 1..Len(reference_image.shape) :
          /\ reference_image.shape[j] = 1
          /\ maxima[j] # 0
          /\ result.shifts[j].n = 0
          /\ result.shifts[k].n # 0

\* C6: in an unmasked call on images of one shape the space argument is
\* accepted exactly when it reads "real" or "fourier" up to case; any other
\* value fails with the invalid-argument error before any transform,
\* product, correlation or peak search has been done.
C6_SpaceValidated ==
    ( /\ pc \notin {"idle", "start", "transform"} /\ NoMasks
      /\ reference_image.shape = moving_image.shape )
    => IF AcceptedSpelling(space)
       THEN /\ result # ValueError(MsgSpace)
            /\ src_freq # None /\ target_freq # None
       ELSE /\ pc = "failed"
            /\ result = ValueError(MsgSpace)
            /\ NoNumericWork
            /\ stages = <<"validate_shapes", "transform">>

\* a value that is neither word was rejected at the transform stage
C6_Witness ==
    /\ pc = "failed" /\ NoMasks
    /\ space = <<"f", "r", "e", "q">>
    /\ result = ValueError(MsgSpace)
    /\ stages = <<"validate_shapes", "transform">>

\* an accepted value in capitals went on to return
C6_AcceptedInCapitals ==
    /\ pc = "done" /\ NoMasks
    /\ space = <<"R", "E", "A", "L">>
    /\ result.kind = "tuple"

\* the row-major index of the peak that a whole-pixel shift vector points at
PeakIndexOf(sh, shape) ==
    ISum([j \in 1..Len(shape) |->
            ((sh[j].n \div sh[j].d) % shape[j]) * Stride(shape, j)])

\* C7: an unmasked call that returns gives the 3-tuple (shifts, error,
\* phase difference) exactly when return_error is true and the shift vector
\* alone exactly when it is false; the shift vector has one component per
\* image axis in the image's axis order: component j stays within half of
\* axis j (plus half a pixel of refinement), and without upsampling the
\* components are the row-major coordinates of the correlation peak.
C7_ReturnArityAndAxisOrder ==
    (pc = "done" /\ NoMasks) =>
        /\ result.kind = (IF return_error THEN "tuple" ELSE "shifts")
        /\ IF return_error
           THEN /\ result.error.sqrt_of.k # "unset"
                /\ result.phasediff.atan2_y.k # "unset"
                /\ result.phasediff.atan2_x.k # "unset"
           ELSE /\ result.error = NoResult.error
                /\ result.phasediff = NoResult.phasediff
        /\ Len(result.shifts) = Ndim(reference_image)
        /\ \A j \in 1..Len(result.shifts) :
              /\ 2 * result.shifts[j].n
                    <= (reference_image.shape[j] + 1) * result.shifts[j].d
              /\ -2 * result.shifts[j].n
                    <= (reference_image.shape[j] + 1) * result.shifts[j].d
        /\ upsample_factor = 1 =>
              PeakIndexOf(result.shifts, reference_image.shape)
                  = argmax_abs(cross_correlation)

\* both arities on an image with axes of different lengths, shifted by half
\* of its longer, second axis
C7_Witness ==
    /\ pc = "done" /\ NoMasks
    /\ reference_image.shape = <<2, 4>>
    /\ ~return_error /\ result.kind = "shifts"
    /\ result.shifts[1].n = 0
    /\ result.shifts[2].n = 2 * result.shifts[2].d

C7_TupleReturned ==
    /\ pc = "done" /\ NoMasks
    /\ reference_image.shape = <<4, 2>>
    /\ return_error /\ result.kind = "tuple"
    /\ result.shifts[1].n = 2 * result.shifts[1].d

\* C8: an unmasked real-space call ends as the call with space = "fourier"
\* on the forward transforms of the two images does: the same shifts, error
\* and phase difference, or the same failure, for every upsample_factor and
\* return_error.
C8_FourierEquivalence ==
    ( /\ Terminated /\ NoMasks
      /\ SameIgnoringCase(space, <<"r", "e", "a", "l">>) ) =>
        result = phase_cross_correlation(fftn(reference_image),
                                         fftn(moving_image), upsample_factor,
                                         Str_fourier, return_error, None,
                                         None, overlap_ratio)

\* a refined real-space call that returned a half-pixel shift with its
\* metrics
C8_Witness ==
    /\ pc = "done" /\ NoMasks /\ space = Str_real
    /\ upsample_factor = 2 /\ return_error
    /\ \E j \in 1..Len(result.shifts) :
          result.shifts[j].n % result.shifts[j].d # 0

\* C9: whenever an unmasked call with return_error true returns, the error
\* is a number >= 0, neither negative nor not-a-number.
C9_ErrorNonNegative ==
    (pc = "done" /\ NoMasks /\ return_error) =>
        /\ result.error.sqrt_of.k = "fin"
        /\ RSign(result.error.sqrt_of) >= 0

\* the direct call asked for the whole transform: upsample_factor 1, a
\* region of the input's shape, no or zero offsets
WholeTransformCall ==
    /\ pc = "dft_returned"
    /\ dft_call[3] = 1
    /\ dft_call[2] = Sequence(dft_call[1].shape)
    /\ dft_call[4] \in { Absent,
                         Sequence([j \in 1..Ndim(dft_call[1]) |-> 0]) }

SameValues(a, b) ==
    /\ a.shape = b.shape
    /\ \A n \in 1..Size(a) : CEq(a.data[n], b.data[n])

\* C10: for upsample_factor 1, a region of the input's shape and zero
\* offsets, _upsampled_dft(data) equals the N-dimensional DFT of data, for
\* every data array.
C10_RoundTrip ==
    WholeTransformCall => SameValues(dft_result.out, fftn(dft_call[1]))

DftCalled == pc \in {"dft_returned", "dft_raised"}

\* C11: _upsampled_dft raises an invalid-argument error and returns no array
\* exactly when upsampled_region_size or axis_offsets is a sequence whose
\* length differs from data.ndim; a scalar region size and absent offsets
\* are accepted and stand for data.ndim equal sizes and all-zero offsets.
C11_LengthsValidated ==
    DftCalled =>
        LET data    == dft_call[1]
            size    == dft_call[2]
            off     == dft_call[4]
            badsize == size.iter /\ Len(size.val) # Len(data.shape)
            badoff  == off.iter /\ Len(off.val) # Len(data.shape)
        IN  /\ (badsize \/ badoff) <=> pc = "dft_raised"
            /\ pc = "dft_raised" =>
                  /\ dft_result.out = None
                  /\ dft_result.raised
                        = (IF badsize THEN MsgRegionSizes ELSE MsgAxisOffsets)
            /\ pc = "dft_returned" =>
                  /\ dft_result.raised = ""
                  /\ dft_result.out # None
            /\ (~size.iter /\ ~badoff) =>
                  dft_result.out.shape
                      = [j \in 1..Len(data.shape) |-> size.val[1]]
            /\ (off = Absent /\ ~badsize) =>
                  dft_result
                      = _upsampled_dft(data, size, dft_call[3],
                                       Sequence([j \in 1..Len(data.shape) |-> 0]))

\* a region size of the right length with offsets one too long was refused
C11_Witness ==
    /\ pc = "dft_raised"
    /\ dft_call[2] = Sequence(dft_call[1].shape)
    /\ dft_call[4].iter
    /\ Len(dft_call[4].val) = Ndim(dft_call[1]) + 1
    /\ dft_result = Raised(MsgAxisOffsets)

RECURSIVE CProd(_)
CProd(s) == IF s = <<>> THEN CInt(1) ELSE CMul(Head(s), CProd(Tail(s)))

\* the separable transform written out per output element: output index
\* (r_1..r_D) over the region sizes, input index (c_1..c_D) over the data's
\* shape, axis j of the output paired with axis j of the input
AxiswiseTransform(data, sizes, offsets, u) ==
    LET D == Len(data.shape)
        At(f) ==
            LET r == unravel_index(f, sizes)
            IN  CSum([n \in 1..Size(data) |->
                    LET c == unravel_index(n - 1, data.shape)
                    IN  IF CEq(data.data[n], CZero) THEN CZero
                        ELSE CMul(data.data[n],
                                  CProd([j \in 1..D |->
                                      Kernel(r[j], c[j], data.shape[j],
                                             offsets[j], u, data.dtype)]))])
    IN  Array(sizes, data.dtype, [f \in 1..Prod(sizes) |-> At(f - 1)])

\* C12: the array returned by _upsampled_dft has one axis per axis of the
\* data, output axis i has size upsampled_region_size[i] and holds the
\* transform along input axis i.
C12_OutputAxes ==
    pc = "dft_returned" =>
        LET data    == dft_call[1]
            D       == Len(data.shape)
            sizes   == IF dft_call[2].iter THEN dft_call[2].val
                       ELSE [j \in 1..D |-> dft_call[2].val[1]]
            offsets == IF dft_call[4].iter THEN dft_call[4].val
                       ELSE [j \in 1..D |-> 0]
        IN  /\ Len(dft_result.out.shape) = D
            /\ \A i \in 1..D : dft_result.out.shape[i] = sizes[i]
            /\ Len(dft_result.out.data) = Prod(sizes)
            /\ SameValues(dft_result.out,
                          AxiswiseTransform(data, sizes, offsets,
                                            dft_call[3]))

\* a three-axis input of a non-square shape with three different region
\* sizes and non-zero offsets
C12_Witness ==
    /\ pc = "dft_returned"
    /\ dft_call[1].shape = <<2, 1, 4>>
    /\ dft_call[2] = Sequence(<<2, 3, 4>>)
    /\ dft_call[4] = Sequence(<<1, 2, 3>>)
    /\ dft_result.out.shape = <<2, 3, 4>>

CallerObjects == {"reference_image", "moving_image"}

InputsIntact ==
    pc # "idle" =>
        /\ reference_image = at_call[1]
        /\ moving_image = at_call[2]
        /\ inplace \cap CallerObjects = {}

\* C13 as stated: a call never modifies the caller's reference_image or
\* moving_image, and the only in-place updates are on the derived shift
\* vector.
C13_OnlyShiftsInPlace ==
    /\ InputsIntact
    /\ NoMasks => inplace \subseteq {"shifts"}

\* C13 amended: a call never modifies the caller's reference_image or
\* moving_image, in real and in Fourier space (where src_freq and
\* target_freq are the caller's arrays), whether it returns or fails; the
\* in-place updates are all on arrays the call made itself: the shift
\* vector and, when return_error is true, the two magnitude arrays that are
\* squared in place.
C13_InputsNeverModified ==
    /\ InputsIntact
    /\ NoMasks =>
          /\ inplace \subseteq {"shifts", "sabs", "tabs", "src_amp", "target_amp"}
          /\ ~return_error => inplace \subseteq {"shifts"}
          /\ pc \in {"zeroing", "metrics", "done"} =>
                ("shifts" \in inplace /\ owner.shifts = "shifts")
          /\ (Terminated /\ return_error /\ owner.src_abs # "none") =>
                IF upsample_factor = 1
                THEN inplace = {"shifts", "sabs", "tabs"}
                ELSE inplace = {"shifts", "src_amp", "target_amp"}

\* a Fourier-space call, whose frequency arrays are the caller's arrays, has
\* squared its magnitude arrays in place and zeroed a shift component
C13_Witness ==
    /\ pc = "done" /\ NoMasks /\ return_error
    /\ owner.src_freq = "reference_image"
    /\ owner.target_freq = "moving_image"
    /\ owner.src_abs = "sabs" /\ "sabs" \in inplace
    /\ \E j \in 1..Len(reference_image.shape) : reference_image.shape[j] = 1
    /\ reference_image = at_call[1]

\* every pixel is a real number >= 0
NonNegativeImage(image) ==
    \A n \in 1..Size(image) :
        /\ image.data[n].k = "fin"
        /\ RSign(ImPart(image.data[n])) = 0
        /\ RSign(RePart(image.data[n])) >= 0

\* C14: the returned phase difference is atan2(Im(CCmax), Re(CCmax)) of the
\* peak correlation value, and it is zero whenever both images are real and
\* non-negative spatial-domain input, for every upsample_factor.
C14_PhaseDifference ==
    (pc = "done" /\ NoMasks /\ return_error) =>
        /\ result.phasediff.atan2_y = ImPart(CCmax)
        /\ result.phasediff.atan2_x = RePart(CCmax)
        /\ ( /\ SameIgnoringCase(space, <<"r", "e", "a", "l">>)
             /\ NonNegativeImage(reference_image)
             /\ NonNegativeImage(moving_image) )
           => ZeroPhase(result)

\* the stages of a complete unmasked call with these arguments, in order
StageOrder ==
    << "validate_shapes", "transform", "coarse",
       IF upsample_factor = 1 THEN "no_upsample" ELSE "refine",
       "zeroing",
       IF return_error THEN "metrics" ELSE "return_shifts" >>

\* where the call stands after each number of stages
PositionAfter(n) ==
    CASE n = 0 -> {"start"}
      [] n = 1 -> {"transform", "failed"}
      [] n = 2 -> {"coarse", "failed"}
      [] n = 3 -> {"branch"}
      [] n = 4 -> {"zeroing"}
      [] n = 5 -> {"metrics"}
      [] n = 6 -> {"done", "failed"}

StagesInOrder ==
    (pc # "idle" /\ NoMasks) =>
        /\ Len(stages) <= 6
        /\ stages = SubSeq(StageOrder, 1, Len(stages))
        /\ pc \in PositionAfter(Len(stages))
        \* zeroing is the last change of the shift vector
        /\ Len(stages) >= 5 =>
              shifts = ZeroDegenerate(shifts, reference_image.shape)
        /\ pc = "done" => result.shifts = shifts
        /\ Len(stages) < 6 => result.kind \in {"none", "ValueError"}
        \* the NaN failure comes from the metrics stage alone
        /\ result = ValueError(MsgNaN) =>
              /\ stages = StageOrder /\ return_error
              /\ CCmax # Unset /\ src_amp # RUnset /\ target_amp # RUnset
        /\ (pc = "failed" /\ Len(stages) = 6) => result = ValueError(MsgNaN)

\* C15: every unmasked call runs its stages in the fixed order
\* validate-shapes, transform-to-frequency, coarse-locate, refine (if
\* taken), degenerate-axis zeroing, metrics (if return_error), each at most
\* once, and ends in done or a failure; zeroing comes after all coarse and
\* refined shift computation and before the result, and the NaN failure is
\* raised only at the metrics stage, after the peak value and both
\* amplitudes have been computed.
C15_StageOrderAndTermination ==
    /\ []StagesInOrder
    /\ (pc = "start" /\ NoMasks) ~> Terminated

\* a refined call that went through all six stages and failed on NaN
C15_Witness ==
    /\ pc = "failed" /\ NoMasks
    /\ upsample_factor = 2
    /\ stages = << "validate_shapes", "transform", "coarse", "refine",
                   "zeroing", "metrics" >>
    /\ result = ValueError(MsgNaN)

\* the flat row-major index of a multi-index
RavelIndex(idx, shape) ==
    ISum([j \in 1..Len(shape) |-> idx[j] * Stride(shape, j)])

\* flat (0-based) is the first index of maximum magnitude of the array; when
\* the array holds a NaN, the first NaN (numpy.argmax)
FirstMaximum(flat, a) ==
    LET Mag(n) == Norm2(a.data[n + 1])
        N == Size(a)
    IN  IF \E n \in 0..(N - 1) : Mag(n).k = "nan"
        THEN /\ Mag(flat).k = "nan"
             /\ \A n \in 0..(flat - 1) : Mag(n).k # "nan"
        ELSE /\ \A n \in 0..(N - 1) : ~RLess(Mag(flat), Mag(n))
             /\ \A n \in 0..(flat - 1) : RLess(Mag(n), Mag(flat))

\* the wraparound rule on one axis
Wrapped(k, n) == IF k <= n \div 2 THEN k ELSE k - n

\* C16: the coarse peak is the first row-major index of maximum magnitude
\* of the inverse transform of src_freq * conj(target_freq), and on every
\* axis of length n a raw peak index k gives the coarse shift k when
\* k <= floor(n/2) and k - n otherwise, for even and odd n.
C16_CoarseWraparound ==
    (pc = "branch" /\ NoMasks) =>
        /\ image_product = ConjProduct(src_freq, target_freq)
        /\ cross_correlation = ifftn(image_product)
        /\ Len(maxima) = Ndim(cross_correlation)
        /\ \A j \in 1..Len(maxima) :
              maxima[j] \in 0..(cross_correlation.shape[j] - 1)
        /\ FirstMaximum(RavelIndex(maxima, cross_correlation.shape),
                        cross_correlation)
        /\ \A j \in 1..Len(maxima) :
              shifts[j] = Rat(Wrapped(maxima[j], src_freq.shape[j]), 1)
        /\ \A n \in 1..(2 * MaxSize) : \A k \in 0..(n - 1) :
              CoarseShifts(<<k>>, <<n>>) = << Rat(Wrapped(k, n), 1) >>

\* a peak past the midpoint of an axis of length 4 was wrapped to -1
C16_Witness ==
    /\ pc = "branch" /\ NoMasks
    /\ \E j \in 1..Len(maxima) :
          /\ src_freq.shape[j] = 4
          /\ maxima[j] = 3
          /\ shifts[j] = Rat(-1, 1)

\* a coarse peak that is not at the origin and shares its magnitude with a
\* later index
C16_TiedMaximum ==
    /\ pc = "branch" /\ NoMasks
    /\ \E j \in 1..Len(maxima) : maxima[j] > 0
    /\ \E n \in 1..Size(cross_correlation) :
          /\ n - 1 # RavelIndex(maxima, cross_correlation.shape)
          /\ REq(Norm2(cross_correlation.data[n]),
                 Norm2(cross_correlation.data[
                     RavelIndex(maxima, cross_correlation.shape) + 1]))

\* the stage was executed by the call in progress
Executed(stage) == \E n \in 1..Len(stages) : stages[n] = stage

\* the call in progress has passed the branch on upsample_factor (line 230)
PastBranch ==
    /\ pc \in {"zeroing", "metrics", "done", "failed"}
    /\ Executed("coarse")

\* C17: the refiner runs only when upsample_factor > 1; with
\* upsample_factor = 1 it is skipped, the shift returned is the coarse
\* wrapped shift, and the peak value from which error and phase are computed
\* is the coarse cross-correlation at the coarse peak index.
C17_RefinerOnlyWhenUpsampling ==
    (NoMasks /\ PastBranch) =>
        /\ Executed("refine") <=> upsample_factor > 1
        /\ Executed("no_upsample") <=> upsample_factor = 1
        /\ upsample_factor = 1 =>
              \E coarse \in {ifftn(ConjProduct(src_freq, target_freq))} :
                \E flat \in 0..(Size(coarse) - 1) :
                  /\ FirstMaximum(flat, coarse)
                  /\ cross_correlation = coarse
                  /\ maxima = unravel_index(flat, coarse.shape)
                  /\ return_error => CCmax = coarse.data[flat + 1]
                  /\ pc # "zeroing" =>
                        shifts = [j \in 1..Len(maxima) |->
                            Rat(Wrapped(maxima[j], coarse.shape[j]), 1)]
                  /\ pc = "done" =>
                        /\ result.shifts = shifts
                        /\ return_error =>
                              /\ result.error =
                                    _compute_error(coarse.data[flat + 1],
                                                   src_amp, target_amp)
                              /\ result.phasediff =
                                    _compute_phasediff(coarse.data[flat + 1])

\* a call with upsample_factor = 1 returned a non-zero coarse shift with
\* error and phase
C17_Witness ==
    /\ NoMasks /\ pc = "done" /\ upsample_factor = 1 /\ return_error
    /\ result.kind = "tuple"
    /\ ~Executed("refine")
    /\ \E j \in 1..Len(result.shifts) : result.shifts[j].n # 0

\* a call with upsample_factor = 2 ran the refiner
C17_Refined ==
    /\ NoMasks /\ pc = "done" /\ upsample_factor = 2
    /\ Executed("refine") /\ ~Executed("no_upsample")

\* the coarse shift of the call in progress (lines 215-228)
CoarseEstimate ==
    Bind({ifftn(ConjProduct(src_freq, target_freq))}, LAMBDA coarse :
        CoarseShifts(unravel_index(argmax_abs(coarse), coarse.shape),
                     coarse.shape))

\* the refiner has run in the call in progress
Refined == NoMasks /\ PastBranch /\ Executed("refine")

\* w = ceil(3u / 2)
IsCeilOfThreeHalves(w, u) == 2 * w >= 3 * u /\ 2 * (w - 1) < 3 * u

\* x is a multiple of 1 / u, and no multiple of 1 / u is nearer to y
NearestGridPoint(x, y, u) ==
    /\ (x.n * u) % x.d = 0
    /\ LET dist(m) ==
               \* |m / u - y| * (u * y.d)
               IF m * y.d >= y.n * u THEN m * y.d - y.n * u
               ELSE y.n * u - m * y.d
           m0 == (x.n * u) \div x.d
       IN  \A m \in (m0 - 2)..(m0 + 2) : dist(m0) <= dist(m)

SmallRationals == { Rat(n, d) : n \in (0 - 2 * MaxSize)..(2 * MaxSize),
                                d \in 1..MaxSize }

\* C18: the refiner snaps the coarse shift to the nearest multiple of
\* 1 / upsample_factor, takes on every axis a window of ceil(1.5 *
\* upsample_factor) samples with dftshift = floor(window / 2) and offset
\* dftshift - snapped * upsample_factor, and its correlation is the conjugate
\* of the upsampled DFT of the conjugated frequency product for exactly that
\* window, factor and offset (stated where the refiner has just run).
C18_RefinerWindow ==
    /\ pc = "idle" => \A u \in 1..(MaxSize + 1) :
          /\ IsCeilOfThreeHalves(RegionSize(u), u)
          /\ DftShift(u) = RegionSize(u) \div 2
          /\ \A y \in SmallRationals :
                NearestGridPoint(SnapShifts(<<y>>, u)[1], y, u)
    /\ (Refined /\ pc = "zeroing") =>
          \E u \in {upsample_factor} :
          \E w \in 1..(2 * u) :
          \E coarse \in {CoarseEstimate} :
          \E snapped \in {SnapShifts(coarse, u)} :
             /\ IsCeilOfThreeHalves(w, u)
             /\ \A j \in 1..Len(coarse) :
                   NearestGridPoint(snapped[j], coarse[j], u)
             /\ image_product = ConjProduct(src_freq, target_freq)
             /\ \E offset \in {[j \in 1..Len(coarse) |->
                                  (w \div 2) - (snapped[j].n * u)
                                                  \div snapped[j].d]} :
                \E called \in {_upsampled_dft(ArrayConj(image_product),
                                              Scalar(w), u,
                                              Sequence(offset))} :
                   /\ called.raised = ""
                   /\ called.out.shape = [j \in 1..Len(coarse) |-> w]
                   /\ cross_correlation = ArrayConj(called.out)

\* the refiner ran on a coarse shift that is not zero, so that the offset of
\* some axis differs from dftshift
C18_Witness ==
    /\ Refined /\ pc = "zeroing"
    /\ \E j \in 1..Len(CoarseEstimate) : CoarseEstimate[j].n < 0
    /\ \E j \in 1..Len(CoarseEstimate) : CoarseEstimate[j].n > 0

\* the sample of the refinement window at index dftshift on every axis
WindowCentre ==
    cross_correlation.data[
        RavelIndex([j \in 1..Ndim(cross_correlation) |->
                       DftShift(upsample_factor)],
                   cross_correlation.shape) + 1]

\* the coarse cross-correlation at the coarse peak, times the number of
\* samples of the image
CoarsePeakTimesSize ==
    Bind({ifftn(ConjProduct(src_freq, target_freq))}, LAMBDA coarse :
        CMul(CInt(Size(coarse)), coarse.data[argmax_abs(coarse) + 1]))

\* C19: for integer upsample_factor > 1 the refined correlation sample at
\* window index dftshift on every axis equals the coarse cross-correlation
\* at the coarse peak multiplied by the number of samples of the image.
C19_WindowCentredOnCoarse ==
    Refined => CEq(WindowCentre, CoarsePeakTimesSize)

\* the same relation for the calls whose frequency product has a complex
\* dtype, where the kernel of the upsampled DFT keeps its imaginary part
C19_ComplexProduct ==
    (Refined /\ image_product.dtype = "complex") =>
        CEq(WindowCentre, CoarsePeakTimesSize)

\* a refined call with a complex product and a coarse peak off the origin
C19_ComplexProductReached ==
    /\ Refined /\ image_product.dtype = "complex"
    /\ ~HasNaN(image_product)
    /\ \E j \in 1..Len(CoarseEstimate) : CoarseEstimate[j].n # 0

\* x + m / f as a rational
PlusOverFactor(x, m, f) == Rat(x.n * f.n + m * f.d * x.d, x.d * f.n)

IsInteger(f) == f.n % f.d = 0

\* m is an integer nearest to y * f
IsNearestInteger(m, y, f) ==
    LET diff == m * y.d * f.d - y.n * f.n
    IN  2 * (IF diff >= 0 THEN diff ELSE 0 - diff) <= y.d * f.d

\* the step of the refiner's shift arithmetic
ShiftRefinedStep == pc = "coarse_given" /\ pc' = "shift_refined"

\* C20 as stated: for every admitted upsample_factor, integer or not, the
\* shift after the refiner is the original coarse shift plus
\* (peak_index - dftshift) / upsample_factor on every axis.
C20_FromCoarseShift ==
    [][ShiftRefinedStep =>
          \A j \in 1..Len(shifts) :
              RatEq(shifts'[j],
                    PlusOverFactor(shifts[j], maxima'[j], upsample_factor))]_vars

\* C20: the shift after the refiner is, on every axis, the coarse shift
\* rounded to the nearest multiple of 1 / upsample_factor plus
\* (peak_index - dftshift) / upsample_factor, for every admitted factor; the
\* rounded shift is the original coarse shift when upsample_factor is an
\* integer.
C20_FromSnappedShift ==
    [][ShiftRefinedStep =>
          \A j \in 1..Len(shifts) :
            /\ \E m \in (0 - MaxSize * MaxFactor)..(MaxSize * MaxFactor) :
                  /\ IsNearestInteger(m, shifts[j], upsample_factor)
                  /\ RatEq(shifts'[j],
                           Rat((m + maxima'[j]) * upsample_factor.d,
                               upsample_factor.n))
            /\ IsInteger(upsample_factor) =>
                  RatEq(shifts'[j],
                        PlusOverFactor(shifts[j], maxima'[j],
                                       upsample_factor))]_vars

\* the refiner finished for a factor that is not an integer, from a coarse
\* shift that is not a multiple of 1 / upsample_factor, with a peak off the
\* window centre
C20_Witness ==
    /\ pc = "shift_refined"
    /\ ~IsInteger(upsample_factor)
    /\ \E j \in 1..Len(shifts) :
          /\ maxima[j] # 0
          /\ ((shifts[j].n * upsample_factor.n - maxima[j] * upsample_factor.d
                   * shifts[j].d) * upsample_factor.d)
                % (shifts[j].d * upsample_factor.n * upsample_factor.d) # 0

\* in the calls of the registration (integer upsample_factor) the shift
\* after the refiner is the coarse shift plus (peak_index - dftshift) /
\* upsample_factor, the peak being the first index of maximum magnitude of
\* the refinement window; the operators for rational factors agree there
\* with those of the calls
C20_InRegistration ==
    (Refined /\ pc = "zeroing") =>
        \E u \in {upsample_factor} :
        \E coarse \in {CoarseEstimate} :
        \E peak \in {[j \in 1..Len(maxima) |-> maxima[j] + (RegionSize(u) \div 2)]} :
            /\ FirstMaximum(RavelIndex(peak, cross_correlation.shape),
                            cross_correlation)
            /\ \A j \in 1..Len(shifts) :
                  RatEq(shifts[j], PlusOverFactor(coarse[j], maxima[j], Rat(u, 1)))
            /\ RegionSizeAt(Rat(u, 1)) = RegionSize(u)
            /\ DftShiftAt(Rat(u, 1)) = DftShift(u)
            /\ \A j \in 1..Len(shifts) :
                  /\ RatEq(SnapShiftsAt(coarse, Rat(u, 1))[j],
                           SnapShifts(coarse, u)[j])
                  /\ RatEq(RefinedShiftsAt(coarse, peak, Rat(u, 1))[j],
                           RefinedShifts(coarse, peak, u)[j])

\* a refined call whose window peak is off the centre
C20_InRegistrationReached ==
    /\ Refined /\ pc = "zeroing"
    /\ \E j \in 1..Len(maxima) : maxima[j] # 0

\* the sum of the squared magnitudes of an array's elements
Energy(a) == RSum([n \in 1..Size(a) |-> Norm2(a.data[n])])

\* the whole-array normalisation of the path taken: the mean of the squared
\* magnitudes without the refiner, their sum with it
PathEnergy(a) ==
    IF upsample_factor = 1 THEN RDivInt(Energy(a), Size(a)) ELSE Energy(a)

\* the peak value of the path taken: cross_correlation holds the coarse
\* correlation without the refiner (C17) and the refinement window with it
\* (C18); the peak is its first element of maximum magnitude
IsPeakValue(z) ==
    \E flat \in 0..(Size(cross_correlation) - 1) :
        /\ FirstMaximum(flat, cross_correlation)
        /\ z = cross_correlation.data[flat + 1]

\* C21: the error returned is sqrt(|1 - CCmax * conj(CCmax) / (src_amp *
\* target_amp)|), with src_amp and target_amp the mean of the squared
\* magnitudes of each frequency array when upsample_factor = 1 and their sum
\* when the refiner ran, and CCmax the coarse peak value in the first case
\* and the peak value of the refinement window in the second.
C21_ErrorFormula ==
    (NoMasks /\ return_error /\ PastBranch /\ pc # "zeroing") =>
        /\ REq(src_amp, PathEnergy(src_freq))
        /\ REq(target_amp, PathEnergy(target_freq))
        /\ IsPeakValue(CCmax)
        /\ pc = "done" =>
              REq(result.error.sqrt_of,
                  RAbs(RAdd(RInt(1),
                            RNeg(RDiv(Norm2(CCmax),
                                      RMul(PathEnergy(src_freq),
                                           PathEnergy(target_freq)))))))

\* a refined call returned an error that is neither 0 nor 1, from images of
\* more than one pixel
C21_Witness ==
    /\ NoMasks /\ return_error /\ pc = "done" /\ upsample_factor = 2
    /\ Size(src_freq) > 1
    /\ result.error.sqrt_of.k = "fin"
    /\ RSign(result.error.sqrt_of) > 0
    /\ ~REq(result.error.sqrt_of, RInt(1))

\* the same without the refiner
C21_WithoutRefiner ==
    /\ NoMasks /\ return_error /\ pc = "done" /\ upsample_factor = 1
    /\ Size(src_freq) > 1
    /\ result.error.sqrt_of.k = "fin"
    /\ RSign(result.error.sqrt_of) > 0
    /\ ~REq(result.error.sqrt_of, RInt(1))

ClipReturned == pc = "clip_returned"

\* the element is a number inside [lo, hi]
InRange(x, lo, hi) == FLessEq(lo, x) /\ FLessEq(x, hi)

\* mode is 'constant' and cval lies outside the range of the input image
CvalOutside ==
    /\ fn_args[4] = "constant"
    /\ ~InRange(fn_args[5], MinOf(fn_args[1]), MaxOf(fn_args[1]))

\* C22 as stated: output_image is unchanged unless clip is true and order is
\* not 0; when it is clipped, every element lies afterwards in
\* [min(input_image), max(input_image)], except the elements that equalled
\* cval when mode is 'constant' and cval is outside that range, which still
\* equal cval.
C22_ClipWarpOutput ==
    ClipReturned =>
        LET input == fn_args[1]
            before == fn_args[2]
            cval == fn_args[5]
        IN  /\ Len(fn_out) = Len(before)
            /\ (~fn_args[6] \/ fn_args[3] = 0) => fn_out = before
            /\ (fn_args[6] /\ fn_args[3] # 0) =>
                  \A n \in 1..Len(before) :
                      IF CvalOutside /\ FEqual(before[n], cval)
                      THEN FEqual(fn_out[n], cval)
                      ELSE InRange(fn_out[n], MinOf(input), MaxOf(input))

\* C22: the same for the elements that are numbers; an element that is NaN
\* stays NaN, inside no range and equal to no cval.
C22_ClipWarpOutputNumbers ==
    ClipReturned =>
        LET input == fn_args[1]
            before == fn_args[2]
            cval == fn_args[5]
        IN  /\ Len(fn_out) = Len(before)
            /\ (~fn_args[6] \/ fn_args[3] = 0) => fn_out = before
            /\ (fn_args[6] /\ fn_args[3] # 0) =>
                  \A n \in 1..Len(before) :
                      IF before[n].k = "nan" THEN fn_out[n].k = "nan"
                      ELSE IF CvalOutside /\ FEqual(before[n], cval)
                      THEN FEqual(fn_out[n], cval)
                      ELSE InRange(fn_out[n], MinOf(input), MaxOf(input))

\* a clipping call that kept an element equal to an outside cval, brought
\* another element into the range, and left a NaN element
C22_Witness ==
    /\ ClipReturned /\ fn_args[6] /\ fn_args[3] # 0 /\ CvalOutside
    /\ \E n \in 1..Len(fn_out) :
          FEqual(fn_args[2][n], fn_args[5]) /\ FEqual(fn_out[n], fn_args[5])
    /\ \E n \in 1..Len(fn_out) :
          /\ fn_args[2][n].k = "fin"
          /\ ~FEqual(fn_args[2][n], fn_out[n])

\* a clipping call on an image with a NaN element
C22_NaNElement ==
    /\ ClipReturned /\ fn_args[6] /\ fn_args[3] # 0
    /\ \E n \in 1..Len(fn_out) : fn_args[2][n].k = "nan"

ResizeReturned == pc = "resize_returned"

\* C23: with more output dimensions than image dimensions the image is
\* treated as having trailing axes of length 1; with one dimension fewer the
\* last-axis length of the image is appended to output_shape; with fewer
\* still the call raises ValueError before any filtering or interpolation;
\* in every accepted case the zoom factor of each axis is output length /
\* input length and the result has the completed output_shape.
C23_ResizeDimensions ==
    ResizeReturned =>
        LET image_shape == fn_args[1]
            output_shape == fn_args[2]
            nd == Len(image_shape)
            od == Len(output_shape)
            InLen(j) == IF j <= nd THEN image_shape[j] ELSE 1
            OutLen(j) == IF j <= od THEN output_shape[j] ELSE image_shape[nd]
        IN  IF od < nd - 1
            THEN /\ fn_out.raised = MsgOutputShape
                 /\ fn_out.steps = <<>>
            ELSE /\ fn_out.raised = ""
                 /\ Len(fn_out.shape) = (IF od > nd THEN od ELSE nd)
                 /\ Len(fn_out.zoom_factors) = Len(fn_out.shape)
                 /\ \A j \in 1..Len(fn_out.shape) :
                       /\ RatEq(fn_out.zoom_factors[j], Rat(OutLen(j), InLen(j)))
                       /\ fn_out.shape[j] = OutLen(j)

\* a two-axis output shape for a three-axis image: the channels were kept
C23_Witness ==
    /\ ResizeReturned
    /\ fn_args[1] = <<2, 3, 3>> /\ fn_args[2] = <<3, 1>>
    /\ fn_out.shape = <<3, 1, 3>>

\* more output axes than image axes, and too few output axes
C23_OtherCases ==
    /\ ResizeReturned
    /\ \/ fn_args[1] = <<2>> /\ fn_out.shape = <<3, 2, 3>>
       \/ Len(fn_args[1]) = 3 /\ Len(fn_args[2]) = 1 /\ fn_out.raised # ""

----------------------------------------------------------------------------
(* warp_coords: the grid handed to coord_map and the planes returned.      *)

CoordsReturned == pc = "coords_returned"

\* the rows of a (P, 2) array, in order
PairsOf(a) == [p \in 1..a.shape[1] |-> << a.data[2 * p - 1], a.data[2 * p] >>]

\* every pixel (first < n0, second < n1) appears exactly once among the pairs
CoversOnce(pairs, n0, n1) ==
    /\ Len(pairs) = n0 * n1
    /\ \A i \in 0..(n0 - 1), j \in 0..(n1 - 1) :
          Cardinality({p \in 1..Len(pairs) : pairs[p] = << i, j >>}) = 1

\* the pixels of the returned planes: (r, c) or (r, c, b)
Pixels(shape) ==
    IF Len(shape) = 3
    THEN { << r, c, b >> : r \in 0..(shape[1] - 1), c \in 0..(shape[2] - 1),
                           b \in 0..(shape[3] - 1) }
    ELSE { << r, c >> : r \in 0..(shape[1] - 1), c \in 0..(shape[2] - 1) }

ReturnedShape(shape) == <<Len(shape)>> \o shape

\* C24: warp_coords passes to coord_map a (P, 2) array of (row, col) pairs
\* covering every output pixel exactly once, and returns an array of shape
\* (ndim, rows, cols[, bands]) whose plane 0 holds the mapped row coordinate
\* and plane 1 the mapped column coordinate of each output pixel; for the
\* identity map plane 0 at (r, c) is r and plane 1 at (r, c) is c.
C24_RowColPairs ==
    CoordsReturned =>
        LET coord_map == fn_args[1]
            shape == fn_args[2]
            coords == fn_out.coords
        IN  /\ fn_out.passed.shape = << shape[1] * shape[2], 2 >>
            /\ CoversOnce(PairsOf(fn_out.passed), shape[1], shape[2])
            /\ coords.shape = ReturnedShape(shape)
            /\ \A x \in Pixels(shape) :
                  /\ ElementAt(coords, <<0>> \o x)
                         = MapPair(coord_map, << x[1], x[2] >>)[1]
                  /\ ElementAt(coords, <<1>> \o x)
                         = MapPair(coord_map, << x[1], x[2] >>)[2]
            /\ coord_map = "identity" =>
                  \A x \in Pixels(shape) :
                      /\ ElementAt(coords, <<0>> \o x) = x[1]
                      /\ ElementAt(coords, <<1>> \o x) = x[2]

\* what the call does: the pairs are (col, row), every output pixel once;
\* plane 0 holds the second and plane 1 the first component of the mapped
\* pair; the third plane of a banded shape holds the band index
C24_ColRowPairs ==
    CoordsReturned =>
        LET coord_map == fn_args[1]
            shape == fn_args[2]
            coords == fn_out.coords
        IN  /\ fn_out.passed.shape = << shape[1] * shape[2], 2 >>
            /\ CoversOnce(PairsOf(fn_out.passed), shape[2], shape[1])
            /\ coords.shape = ReturnedShape(shape)
            /\ \A x \in Pixels(shape) :
                  /\ ElementAt(coords, <<0>> \o x)
                         = MapPair(coord_map, << x[2], x[1] >>)[2]
                  /\ ElementAt(coords, <<1>> \o x)
                         = MapPair(coord_map, << x[2], x[1] >>)[1]
                  /\ Len(shape) = 3 => ElementAt(coords, <<2>> \o x) = x[3]
            /\ coord_map = "identity" =>
                  \A x \in Pixels(shape) :
                      /\ ElementAt(coords, <<0>> \o x) = x[1]
                      /\ ElementAt(coords, <<1>> \o x) = x[2]

\* a non-square banded shape under a map that is not the identity
C24_NonSquare ==
    /\ CoordsReturned
    /\ fn_args[1] = "shift"
    /\ fn_args[2] = << 1, 2, 2 >>

\* the identity map over one row and two columns: the second pair handed to
\* coord_map is (1, 0), and pixel (0, 1) is never handed over as (row, col)
C24_OneRowTwoColumns ==
    /\ CoordsReturned
    /\ fn_args = << "identity", << 1, 2 >> >>
    /\ PairsOf(fn_out.passed) = << << 0, 0 >>, << 1, 0 >> >>
    /\ fn_out.coords.data = << 0, 0, 0, 1 >>

----------------------------------------------------------------------------
(* diamond: the neighbourhood of the centre element.                       *)

DiamondReturned == pc = "diamond_returned"

\* 1 and 0 in the dtype of the array (True and False for bool)
One(dtype) == IF dtype = "bool" THEN TRUE ELSE 1

Zero(dtype) == IF dtype = "bool" THEN FALSE ELSE 0

\* the city-block distance between two elements of a two-axis array
Manhattan(a, b) ==
    (IF a[1] < b[1] THEN b[1] - a[1] ELSE a[1] - b[1])
    + (IF a[2] < b[2] THEN b[2] - a[2] ELSE a[2] - b[2])

\* C25: for every integer radius >= 0, diamond(radius) is a square array of
\* side 2*radius + 1 whose element is 1 exactly when its city-block distance
\* to the centre element (radius, radius) is no greater than radius, and 0
\* otherwise.
C25_Diamond ==
    DiamondReturned =>
        LET radius == fn_args[1]
            dtype == fn_args[2]
            side == 2 * radius + 1
        IN  /\ fn_out.shape = << side, side >>
            /\ Len(fn_out.data) = side * side
            /\ \A r \in 0..(side - 1), c \in 0..(side - 1) :
                  LET element == fn_out.data[r * side + c + 1]
                  IN  /\ element \in {One(dtype), Zero(dtype)}
                      /\ element = One(dtype)
                           <=> Manhattan(<< r, c >>, << radius, radius >>)
                                   <= radius

\* the template of test_pad_input, diamond(2), and its last three columns
C25_Witness ==
    /\ DiamondReturned
    /\ fn_args = << 2, "uint8" >>
    /\ fn_out.data = << 0, 0, 1, 0, 0,
                        0, 1, 1, 1, 0,
                        1, 1, 1, 1, 1,
                        0, 1, 1, 1, 0,
                        0, 0, 1, 0, 0 >>

\* radius 0 gives the single element 1; the largest radius gives a corner 0
C25_Extremes ==
    /\ DiamondReturned
    /\ fn_args[1] = MaxRadius
    /\ fn_out.data[1] = Zero(fn_args[2])
    /\ fn_out.data[MaxRadius + 1] = One(fn_args[2])
    /\ diamond(0, "uint8").data = << 1 >>

----------------------------------------------------------------------------
(* The coarse shift stays inside the half-extent of the image.             *)

PeakLocated == pc = "peak_located"

\* C26: for every axis of length n >= 1 and every peak index, the coarse
\* shift component s is an integer with -(n - floor(n/2) - 1) <= s <=
\* floor(n/2), so |s| <= floor(n/2) and s = 0 when n = 1; distinct peak
\* indices give distinct shifts.
C26_CoarseInHalfExtent ==
    PeakLocated =>
        LET shape == fn_args[1]
            peak == fn_args[2]
        IN  /\ \A j \in 1..Len(shape) :
                  LET n == shape[j]
                      s == fn_out[j]
                  IN  /\ s.d = 1
                      /\ 0 - (n - (n \div 2) - 1) <= s.n
                      /\ s.n <= n \div 2
                      /\ s.n <= n \div 2 /\ 0 - s.n <= n \div 2
                      /\ n = 1 => s.n = 0
            /\ \A other \in PeaksOf(shape) :
                  other # peak => CoarseShifts(other, shape) # fn_out

\* an odd and an even axis, each with the peak at its most negative shift
C26_Witness ==
    /\ PeakLocated
    /\ fn_args = << << 5, 4 >>, << 3, 3 >> >>
    /\ fn_out = << Rat(0 - 2, 1), Rat(0 - 1, 1) >>

\* both ends of the range on an odd axis, and an axis of length 1
C26_Ends ==
    /\ PeakLocated
    /\ fn_args = << << 3, 1 >>, << 1, 0 >> >>
    /\ fn_out = << Rat(1, 1), Rat(0, 1) >>
    /\ CoarseShifts(<< 2, 0 >>, << 3, 1 >>) = << Rat(0 - 1, 1), Rat(0, 1) >>

----------------------------------------------------------------------------
(* Registering an image against itself.                                    *)

SameImages == NoMasks /\ reference_image = moving_image

NonZero(image) ==
    \E n \in 1..Size(image) : ~CEq(image.data[n], CZero)

ShiftsReturned == pc = "done" /\ result.kind \in {"shifts", "tuple"}

\* C27: when reference and moving image are identical, with no masks and
\* upsample_factor 1, the returned shift is zero on every axis, also when
\* the correlation maximum is tied (a constant or periodic image); for a
\* non-zero image the returned error is 0.
C27_IdenticalImages ==
    (SameImages /\ upsample_factor = 1 /\ ShiftsReturned) =>
        /\ Len(result.shifts) = Ndim(reference_image)
        /\ \A j \in 1..Len(result.shifts) : RatEq(result.shifts[j], Rat(0, 1))
        /\ (result.kind = "tuple" /\ NonZero(reference_image)) =>
              REq(result.error.sqrt_of, RInt(0))

\* a periodic image: the correlation maximum is tied between the origin and
\* half the axis, and the call returns shift 0 and error 0
C27_Witness ==
    /\ SameImages /\ upsample_factor = 1 /\ ShiftsReturned
    /\ result.kind = "tuple"
    /\ reference_image.shape = << 4 >>
    /\ NonZero(reference_image)
    /\ REq(Norm2(cross_correlation.data[1]), Norm2(cross_correlation.data[3]))
    /\ RSign(Norm2(cross_correlation.data[1])) > 0
    /\ maxima = << 0 >>
    /\ REq(result.error.sqrt_of, RInt(0))

\* a constant image of two axes, every correlation value tied
C27_Constant ==
    /\ SameImages /\ upsample_factor = 1 /\ ShiftsReturned
    /\ reference_image = OnesImage(<< 2, 2 >>)
    /\ \A n \in 1..4 : REq(Norm2(cross_correlation.data[n]),
                           Norm2(cross_correlation.data[1]))
    /\ result.shifts = << Rat(0, 1), Rat(0, 1) >>

\* an image with a NaN pixel and return_error False: shift 0 is returned
C27_NaNImage ==
    /\ SameImages /\ upsample_factor = 1 /\ ShiftsReturned
    /\ HasNaN(reference_image)
    /\ result.kind = "shifts"

----------------------------------------------------------------------------
(* How far the refiner moves the estimate.                                 *)

\* ceil(1.5 * u) for an integer u
CeilThreeHalves(u) == (3 * u + 1) \div 2

\* x - y = j / u
DiffersBy(x, y, j, u) == RatEq(x, Rat(y.n * u + j * y.d, y.d * u))

\* |x - y| < 1
WithinOnePixel(x, y) ==
    LET diff == x.n * y.d - y.n * x.d
        unit == x.d * y.d
    IN  (IF diff < 0 THEN 0 - diff ELSE diff) < (IF unit < 0 THEN 0 - unit ELSE unit)

\* x is an integer multiple of 1 / u
MultipleOfOneOver(x, u) == (x.n * u) % x.d = 0

\* the offsets j of a window of ceil(1.5 u) samples centred at dftshift
AllowedOffsets(u) ==
    (0 - (CeilThreeHalves(u) \div 2))
        ..(CeilThreeHalves(u) - 1 - (CeilThreeHalves(u) \div 2))

\* C28: for every integer upsample_factor u >= 2 the shift after the refiner
\* minus the coarse shift equals j/u on every axis, for an integer j with
\* -floor(ceil(1.5u)/2) <= j <= ceil(1.5u) - 1 - floor(ceil(1.5u)/2); the
\* refined shift is an integer multiple of 1/u and less than a full pixel
\* away from the coarse shift.
C28_RefinementReach ==
    [][(ShiftRefinedStep /\ IsInteger(upsample_factor)) =>
          LET u == upsample_factor.n \div upsample_factor.d
          IN  /\ u >= 2
              /\ \A j \in 1..Len(shifts) :
                    /\ \E k \in AllowedOffsets(u) :
                          DiffersBy(shifts'[j], shifts[j], k, u)
                    /\ MultipleOfOneOver(shifts'[j], u)
                    /\ WithinOnePixel(shifts'[j], shifts[j])]_vars

\* the refiner moved the estimate by the largest allowed offset, from a
\* coarse shift that is not zero, for the integer factor 3
C28_Witness ==
    /\ pc = "shift_refined"
    /\ upsample_factor = Rat(3, 1)
    /\ \E j \in 1..Len(shifts) :
          /\ maxima[j] = 0 - (CeilThreeHalves(3) \div 2)
          /\ RatEq(shifts[j], Rat(1 * 3 + maxima[j], 3))

\* in the calls of the registration (upsample_factor 2) the returned shift
\* of every axis longer than one element differs from the coarse shift by
\* -1/2, 0 or 1/2, and an axis of one element has coarse and returned
\* shift 0
C28_InRegistration ==
    (Refined /\ ShiftsReturned) =>
        \E coarse \in {CoarseEstimate} :
            \A j \in 1..Len(result.shifts) :
                IF src_freq.shape[j] > 1
                THEN /\ \E k \in AllowedOffsets(upsample_factor) :
                           DiffersBy(result.shifts[j], coarse[j], k,
                                     upsample_factor)
                     /\ MultipleOfOneOver(result.shifts[j], upsample_factor)
                     /\ WithinOnePixel(result.shifts[j], coarse[j])
                ELSE /\ RatEq(result.shifts[j], Rat(0, 1))
                     /\ RatEq(coarse[j], Rat(0, 1))

\* a refined call returned a shift half a pixel below a coarse shift that
\* is not zero
C28_InRegistrationReached ==
    /\ Refined /\ ShiftsReturned
    /\ \E j \in 1..Len(result.shifts) :
          /\ src_freq.shape[j] > 1
          /\ ~RatEq(CoarseEstimate[j], Rat(0, 1))
          /\ DiffersBy(result.shifts[j], CoarseEstimate[j], 0 - 1,
                       upsample_factor)

----------------------------------------------------------------------------
(* The order of the validation failures of an unmasked call.               *)

ShapesAgree == reference_image.shape = moving_image.shape

Unrecognised == ~(Lower(space) \in {Str_real, Str_fourier})

\* C29: in an unmasked call, when the shapes differ and the space value is
\* also unrecognised the failure is the shape-mismatch error; when the
\* shapes agree, an unrecognised space is reported before any NaN failure
\* can occur.
C29_ValidationPrecedence ==
    (NoMasks /\ Terminated /\ Unrecognised) =>
        /\ pc = "failed"
        /\ ~ShapesAgree =>
              /\ result = ValueError(MsgShape)
              /\ stages = << "validate_shapes" >>
        /\ ShapesAgree =>
              /\ result = ValueError(MsgSpace)
              /\ stages = << "validate_shapes", "transform" >>
        /\ result.msg # MsgNaN

\* both failures apply and the NaN image is among the inputs
C29_Witness ==
    /\ NoMasks /\ Terminated /\ Unrecognised
    /\ ~ShapesAgree
    /\ HasNaN(moving_image)
    /\ result.msg = MsgShape

\* equal shapes, a NaN image and return_error True: the space failure
C29_SpaceBeforeNaN ==
    /\ NoMasks /\ Terminated /\ Unrecognised
    /\ ShapesAgree
    /\ HasNaN(reference_image) /\ return_error
    /\ result.msg = MsgSpace

----------------------------------------------------------------------------
(* The error metric of the two paths.                                      *)

\* the refined peak is the window sample at index dftshift on every axis
PeakAtWindowCentre == \A j \in 1..Len(maxima) : maxima[j] = 0

\* what the same call returns with upsample_factor 1
WithoutRefiner ==
    phase_cross_correlation(at_call[1], at_call[2], 1, space, TRUE,
                            None, None, overlap_ratio)

RefinedWithError ==
    Refined /\ pc = "done" /\ return_error /\ result.kind = "tuple"

\* C30: whenever the refined peak coincides with the coarse peak (window
\* index dftshift on every axis), the ratio CCmax * conj(CCmax) / (src_amp *
\* target_amp) of the upsampled path equals that of the upsample_factor = 1
\* path, so the returned error is the same for both paths.
C30_SameErrorOnBothPaths ==
    (RefinedWithError /\ PeakAtWindowCentre) =>
        \E other \in {WithoutRefiner} :
            /\ other.kind = "tuple"
            /\ REq(result.error.sqrt_of, other.error.sqrt_of)

\* the same for the calls whose frequency product has a complex dtype: every
\* call in real space, where the product comes from fft.fftn
C30_ComplexProduct ==
    (RefinedWithError /\ PeakAtWindowCentre /\ image_product.dtype = "complex") =>
        \E other \in {WithoutRefiner} :
            /\ other.kind = "tuple"
            /\ REq(result.error.sqrt_of, other.error.sqrt_of)

\* a refined call in real space whose coarse peak is off the origin, whose
\* window peak is at the window centre and whose error is neither 0 nor 1
C30_ComplexProductReached ==
    /\ RefinedWithError /\ PeakAtWindowCentre
    /\ image_product.dtype = "complex"
    /\ \E j \in 1..Len(result.shifts) : result.shifts[j].n # 0
    /\ RSign(result.error.sqrt_of) > 0
    /\ ~REq(result.error.sqrt_of, RInt(1))

\* frequency data of a real dtype: the window centre is the peak, and the
\* error differs from the one of the path without the refiner
C30_RealProductReached ==
    /\ RefinedWithError /\ PeakAtWindowCentre
    /\ image_product.dtype = "float"
    /\ reference_image.data = << CInt(1), CInt(1), CInt(1), CZero >>
    /\ moving_image = SkewImage(<< 4 >>)
    /\ REq(result.error.sqrt_of, Real(5, 0, 9))
    /\ REq(WithoutRefiner.error.sqrt_of, Real(4, 0, 9))

=============================================================================
